---- MODULE Spec2Model ----
(***************************************************************************)
(* Parking-Finder: the spot lifecycle engine of MapScreen                  *)
(* (src/ParkingFinderApp/app/screens/Map.tsx) and the remote report        *)
(* collaborator (src/ParkingFinderApp/parkingReports.ts).                  *)
(*                                                                         *)
(* Time is the device clock in milliseconds.  Latitudes and longitudes are *)
(* integers in thousandths of a degree.  Every React state setter of a     *)
(* handler is part of that handler's action; the marker list is what the   *)
(* render function yields when it is evaluated in a state (a render        *)
(* follows every state change and every tick).                             *)
(***************************************************************************)
EXTENDS Integers, Sequences, FiniteSets, TLC

(* ------------------------------ bounds -------------------------------- *)

\* number of clock steps the model explores
MaxClockSteps == 5
\* number of spots the user saves in a session
MaxSaves == 2
\* number of position samples delivered in a session
MaxSamples == 3
\* number of spots saved, and of position samples delivered, in a session that
\* follows the detector through a full window of samples (SpecDwell)
MaxDwellSaves == 1
MaxDwellSamples == 11
\* number of position samples delivered in a session that follows the undo
\* window to its end (SpecUndo)
MaxUndoSamples == 3
\* clock steps such a session takes before it may be suspended, and clock
\* steps by which it outlasts the undo window
MaxUndoClockSteps == 2
MaxUndoOverrun == 2
\* number of spots saved in a session that follows one report's claim from the
\* save to the end of the undo window (SpecClaim)
MaxClaimSaves == 1
\* spots saved and clock steps taken in a session at the add-spot form (SpecForm)
MaxFormSaves == 2
MaxFormClockSteps == 2
\* clock steps taken while claimants mark one report as taken (SpecTaken)
MaxTakenClockSteps == 6
\* spots saved in a session with the my-reports feed (SpecAlerts)
MaxAlertSaves == 1
\* longest duration, in seconds, of a record whose status is evaluated alone
MaxEvalDuration == 31

\* region changes reported by the map, and clock steps of the region debounce
MaxRegionChanges == 3
MaxRegionClockSteps == 8

\* spots saved and clock steps taken across a restart
MaxStartupSaves == 2
MaxStartupClockSteps == 3

\* clock steps between the suspensions of a session of long presses
MaxPressClockSteps == 2

\* runs of the position watch effect, and position samples delivered to them
MaxWatchRuns == 3
MaxWatchSamples == 2

(* -------------------------- program constants -------------------------- *)

ARRIVE_RADIUS_M == 1000000
DWELL_MS == 1000
SAMPLE_WINDOW == 8
MOVEMENT_VARIANCE_M == 9999
UNDO_WINDOW_MS == 45000
\* setInterval(() => setTick(...), 1000)
TICK_MS == 1000
\* data.durationSeconds || 30
DEFAULT_DURATION == 30
\* metres per degree of latitude: R * pi / 180 with R = 6371000 (distanceMeters)
METERS_PER_DEGREE == 111195
OVERPASS_CACHE_MS == 60000
\* the quiet period of handleRegionChangeComplete's setTimeout
REGION_DEBOUNCE_MS == 400

(* ------------------------- model value spaces -------------------------- *)

\* Date.now() when the screen is mounted, and the granularity of the clock
Epoch == 10 * 1000
ClockStep == TICK_MS \div 2
MaxTime == Epoch + MaxClockSteps * ClockStep

\* the duration (hours*3600 + minutes*60 + seconds) the form submits: with two
\* seconds a spot is fresh at age 0, expiring at age 1 and expired at age 2
Durations == {2}
\* the long-pressed map coordinate (Santa Cruz, 36.974 N, 122.031 W)
SpotLat == 36974
SpotLon == -122031
\* latitudes of position samples, all on the meridian of the spot: at the
\* spot, 0.12 degrees north of it (13 km: inside the radius, more than the
\* movement threshold away) and 10 degrees north of it (outside the radius)
SampleLats == {36974, 37094, 46974}
\* the sample latitudes of a long session: at the spot and outside the radius
DwellLats == {36974, 46974}

\* what the add-spot form can be given: a long press at the spot or at a
\* latitude of 200 degrees, 0 or 2 seconds, no rate, a blank one or a rate
BadLat == 200000
FormLats == {SpotLat, BadLat}
FormSeconds == {0, 2}
FormRates == {"", " ", "2"}
SpotTypes == {"free", "paid"}
OsmOutcomes == {"true", "false", "error"}

\* the users whose clients mark the same report as taken
Claimants == {"user-1", "user-2"}

Uid == "u1"
\* the id of the k-th spot saved, `spot-${timestamp}-${Math.random()}`, and the
\* document id addDoc gives its report; NoId is an undefined firestoreId
LocalId(k) == <<"spot", k>>
DocId(k) == <<"doc", k>>
NoId == <<>>
AllDocIds == {DocId(k) : k \in 1..MaxSaves}

(* ------------------------------ helpers -------------------------------- *)

Abs(x) == IF x < 0 THEN -x ELSE x

\* a JavaScript number of milliseconds
Num(ms) == [kind |-> "number", v |-> ms]
\* a Firestore Timestamp: whole seconds (the code reads only .seconds)
ServerTimestamp(ms) == [kind |-> "timestamp", v |-> ms \div 1000]
\* a missing createdAt (null / undefined)
NullTime == [kind |-> "null", v |-> 0]

\* getTimeInMillis: falsy -> Date.now(); Timestamp -> seconds * 1000;
\* number -> itself
getTimeInMillis(timeData, now) ==
  IF timeData.kind = "null" \/ (timeData.kind = "number" /\ timeData.v = 0)
    THEN now
  ELSE IF timeData.kind = "timestamp" /\ timeData.v # 0
    THEN timeData.v * 1000
  ELSE timeData.v

\* getAgeInSeconds: Math.floor((Date.now() - timeInMillis) / 1000)
getAgeInSeconds(createdAt, now) ==
  (now - getTimeInMillis(createdAt, now)) \div 1000

\* Math.floor(durationSeconds * 0.9)
warningThresholdOf(durationSeconds) == (durationSeconds * 9) \div 10

\* getPinStatus without the expired test: only the warning colour
getPinStatus_NoExpiry(createdAt, durationSeconds, now) ==
  LET age == getAgeInSeconds(createdAt, now)
      warningThreshold == warningThresholdOf(durationSeconds)
  IN IF age >= warningThreshold
       THEN [color |-> "#FF0000", expired |-> FALSE, warning |-> TRUE, age |-> age]
       ELSE [color |-> "#00FF00", expired |-> FALSE, warning |-> FALSE, age |-> age]

\* getPinStatus with the warning test first (the priority swapped)
getPinStatus_WarningFirst(createdAt, durationSeconds, now) ==
  LET age == getAgeInSeconds(createdAt, now)
      warningThreshold == warningThresholdOf(durationSeconds)
  IN IF age >= warningThreshold
       THEN [color |-> "#FF0000", expired |-> FALSE, warning |-> TRUE, age |-> age]
     ELSE IF age >= durationSeconds
       THEN [color |-> "#999999", expired |-> TRUE, warning |-> FALSE, age |-> age]
     ELSE [color |-> "#00FF00", expired |-> FALSE, warning |-> FALSE, age |-> age]

\* getPinStatus when a record counts as expired only in the second its age
\* equals its duration
getPinStatus_ExpiredOnce(createdAt, durationSeconds, now) ==
  LET age == getAgeInSeconds(createdAt, now)
      warningThreshold == warningThresholdOf(durationSeconds)
  IN IF age = durationSeconds
       THEN [color |-> "#999999", expired |-> TRUE, warning |-> FALSE, age |-> age]
     ELSE IF age >= warningThreshold
       THEN [color |-> "#FF0000", expired |-> FALSE, warning |-> TRUE, age |-> age]
     ELSE [color |-> "#00FF00", expired |-> FALSE, warning |-> FALSE, age |-> age]

getPinStatus(createdAt, durationSeconds, now) ==
  LET age == getAgeInSeconds(createdAt, now)
      warningThreshold == warningThresholdOf(durationSeconds)
  IN IF age >= durationSeconds
       THEN [color |-> "#999999", expired |-> TRUE, warning |-> FALSE, age |-> age]
     ELSE IF age >= warningThreshold
       THEN [color |-> "#FF0000", expired |-> FALSE, warning |-> TRUE, age |-> age]
     ELSE [color |-> "#00FF00", expired |-> FALSE, warning |-> FALSE, age |-> age]

\* data.durationSeconds || 30
DurationOr30(durationSeconds) ==
  IF durationSeconds = 0 THEN DEFAULT_DURATION ELSE durationSeconds

\* safeCoord / sanitizeCoord: finite and inside -90..90, -180..180
safeCoord(lat, lon) ==
  /\ lat >= -90000 /\ lat <= 90000
  /\ lon >= -180000 /\ lon <= 180000

\* distanceMeters (haversine) for two points on one meridian, where it is
\* R * |dLat| in radians: 111195 m per degree, whole metres
distanceMeters(aLat, aLon, bLat, bLon) ==
  (Abs(bLat - aLat) * METERS_PER_DEGREE) \div 1000


(* ------------------------------- state --------------------------------- *)

VARIABLES
  now,                  \* Date.now()
  nextTickAt,           \* when the setInterval ticker fires next
  spots,                \* useState<ParkingSpot[]>: the local Store
  storedSpots,          \* AsyncStorage[STORAGE_KEY]
  saveCount,            \* spots saved so far (makes ids unique)
  creating,             \* the saveSpot call awaiting createParkingReport
  remote,               \* the parkingReports collection of the remote store
  cloudReports,         \* useState: last snapshot of subscribeToParkingReports
  myReports,            \* useState: last snapshot of subscribeToMyParkingReports
  hiddenCloudIds,       \* useState<Set<string>>
  removeDialog,         \* the "Remove Spot?" alert and the spot it captured
  pendingDeletes,       \* deleteParkingReport calls in flight
  alertedIds,           \* useRef<Set<string>>
  lastReported,         \* useState<LastReported | null>
  storedLast,           \* AsyncStorage[LAST_REPORTED_KEY]
  samplesSeen,          \* position samples delivered to the callback so far
  samplesRef,           \* useRef<PosSample[]>
  dwellStartRef,        \* useRef<number | null>
  alreadyAutoTakenRef,  \* useRef<Set<string>>
  isAutoTaking,         \* useState(false)
  capturedIsAutoTaking, \* isAutoTaking as the position callback's closure holds it
  pendingClaims,        \* markReportTaken calls in flight
  claimCalls,           \* markReportTaken calls issued, per report id
  undoState,            \* useState: the undo opportunity
  undoTimerRef,         \* the deadline of the undo expiry timer
  pendingUndos,         \* undoAutoTaken calls awaiting updateDoc, each with the
                        \* undoState its closure holds
  alerts,               \* the Alert.alert calls of the most recent handler
  probe,                \* inputs and result of a status evaluation (SpecEval)
  form,                 \* the add-spot modal: pendingCoord, spotType, rate,
                        \* hours, minutes, seconds
  takenRace,            \* one report document that several claimants mark as
                        \* taken, and their markReportTaken calls (SpecTaken)
  mounted,              \* the Map screen is mounted
  visibleRegion,        \* useState: the region the report feed is scoped to
  regionTimers,         \* the setTimeout timers of the region debounce that
                        \* are still to fire
  regionDebounceRef,    \* useRef: the timer the last region change armed
  subscriptions,        \* the onSnapshot listeners of the report feed that
                        \* have not been unsubscribed
  subscribeCalls,       \* subscribeToParkingReports calls made so far
  regionLog,            \* the region changes reported by the map and the
                        \* visibleRegion updates, in order
  startup,              \* the setup effect of the running process: how far
                        \* its load from AsyncStorage has come, whether the
                        \* persist effect's write at mount has landed, and
                        \* what the storage held when the process started
  overpassCacheRef,     \* useRef: the outcome of the OSM check per place,
                        \* each with the time it was stored
  watchRuns,            \* the runs of the position watch effect, in order:
                        \* each one's mounted flag and how far its async
                        \* function has come
  locationSub,          \* useRef: the position subscription held
  positionSubs,         \* the position subscriptions created and not yet
                        \* removed, each named by the run that created it
  watchDropped,         \* samples a callback ignored, its run being over
  docMap,               \* subscribeToParkingReportsInBounds: the reports its
                        \* listeners have collected, one per id
  emitted,              \* the list it passed to onData last
  lastSnap              \* per geohash range, the ids of the documents in the
                        \* latest snapshot of the range's query

storeVars == <<spots, storedSpots, saveCount, creating>>
feedVars == <<remote, cloudReports, myReports>>
removeVars == <<hiddenCloudIds, removeDialog, pendingDeletes>>
arrivalVars == <<lastReported, storedLast, samplesSeen, samplesRef, dwellStartRef,
                 alreadyAutoTakenRef, isAutoTaking, capturedIsAutoTaking,
                 pendingClaims, claimCalls, undoState, undoTimerRef,
                 pendingUndos>>
boundsVars == <<docMap, emitted, lastSnap>>
watchVars == <<watchRuns, locationSub, positionSubs, watchDropped>>
regionVars == <<mounted, visibleRegion, regionTimers, regionDebounceRef,
                subscriptions, subscribeCalls, regionLog>>
vars == <<now, nextTickAt, storeVars, feedVars, removeVars, alertedIds,
          arrivalVars, alerts, probe, form, takenRace,
          regionVars, startup, overpassCacheRef, watchVars, boundsVars>>

NoDoc == [exists |-> FALSE, userId |-> "", latitude |-> 0, longitude |-> 0,
          type |-> "free", rate |-> <<>>,
          status |-> "open", createdAt |-> NullTime, durationSeconds |-> 0]

\* an open report nobody has claimed, no markReportTaken call issued
IdleTaken == [doc |-> [status |-> "open", resolvedBy |-> "", resolvedAt |-> NullTime],
              inFlight |-> {}, issued |-> {}]

\* a run of the position watch effect whose async function has finished with
\* its subscription in locationSub: the state in which samples arrive
EstablishedRun == [mounted |-> TRUE, phase |-> "ended"]

\* the cleanup of the position watch effect: the latest run's mounted = false
RunsAfterCleanup(runs) ==
  [i \in DOMAIN runs |-> IF i = Len(runs) THEN [runs[i] EXCEPT !.mounted = FALSE]
                         ELSE runs[i]]

\* locationSub.current?.remove(): the subscription the ref holds is removed
SubsAfterRemove(subs, ref) == subs \ {ref[i] : i \in DOMAIN ref}

\* the first process, its setup complete and nothing in storage but the
\* empty list the persist effect wrote at mount
FirstRun == [phase |-> "done", restarted |-> FALSE, mountWrite |-> FALSE,
             read |-> <<>>, persisted |-> <<>>, persistedLast |-> <<>>]

\* regions in millionths of a degree; useState's initial visibleRegion
RegionAt(lat, lon, latDelta, lonDelta) ==
  [latitude |-> lat, longitude |-> lon,
   latitudeDelta |-> latDelta, longitudeDelta |-> lonDelta]

InitialRegion == RegionAt(36974100, -122030800, 10000, 10000)

\* the regions the map is moved to: panned north, and zoomed out
Regions == {RegionAt(36980000, -122030800, 10000, 10000),
            RegionAt(36974100, -122030800, 40000, 40000)}

RegionClockStep == REGION_DEBOUNCE_MS \div 2

\* durations of the spots saved across a restart, and how far its clock runs
StartupDurations == {2, 30}
MaxStartupTime == Epoch + MaxStartupClockSteps * ClockStep

\* the outcomes of requestForegroundPermissionsAsync
PermissionStatuses == {"granted", "denied"}

\* the bounding box subscribeToParkingReportsInBounds is called with, in
\* thousandths of a degree, and the geohash ranges that cover it: the cells
\* south and north of the box's centre
ReportBounds == [minLat |-> SpotLat - 4, maxLat |-> SpotLat + 6,
                 minLng |-> SpotLon - 5, maxLng |-> SpotLon + 5]
GeohashRanges == {"south", "north"}

\* regionToBounds
regionToBounds(r) ==
  [minLat |-> r.latitude - r.latitudeDelta \div 2,
   maxLat |-> r.latitude + r.latitudeDelta \div 2,
   minLng |-> r.longitude - r.longitudeDelta \div 2,
   maxLng |-> r.longitude + r.longitudeDelta \div 2]

\* the listener the k-th subscribeToParkingReports call creates for region r
ListenerOf(k, r) == [id |-> k, bounds |-> regionToBounds(r)]

\* the add-spot modal as useState leaves it: closed, a free spot, no rate,
\* 0 h 0 min 30 s
ClosedForm == [pendingCoord |-> <<>>, spotType |-> "free", rate |-> "",
               hours |-> 0, minutes |-> 0, seconds |-> DEFAULT_DURATION]

\* one Alert.alert call: its title, the record it is about, the count it carries
AlertOf(title, id, n) == [title |-> title, id |-> id, n |-> n]

IdleProbe == [createdAt |-> NullTime, durationSeconds |-> 0, now |-> 0,
              isCloud |-> FALSE, status |-> "open", out |-> "none"]

InitSession ==
  /\ now = Epoch
  /\ nextTickAt = Epoch + TICK_MS
  /\ spots = <<>>
  /\ storedSpots = <<>>
  /\ saveCount = 0
  /\ creating = <<>>
  /\ remote = [d \in AllDocIds |-> NoDoc]
  /\ cloudReports = {}
  /\ myReports = {}
  /\ hiddenCloudIds = {}
  /\ removeDialog = <<>>
  /\ pendingDeletes = {}
  /\ alertedIds = {}
  /\ lastReported = <<>>
  /\ storedLast = <<>>
  /\ samplesSeen = 0
  /\ samplesRef = <<>>
  /\ dwellStartRef = <<>>
  /\ alreadyAutoTakenRef = {}
  /\ isAutoTaking = FALSE
  /\ capturedIsAutoTaking = FALSE
  /\ pendingClaims = {}
  /\ claimCalls = [d \in AllDocIds |-> 0]
  /\ undoState = <<>>
  /\ undoTimerRef = <<>>
  /\ form = ClosedForm
  /\ takenRace = IdleTaken
  /\ mounted = TRUE
  /\ visibleRegion = InitialRegion
  /\ regionTimers = {}
  /\ regionDebounceRef = <<>>
  /\ subscriptions = {ListenerOf(1, InitialRegion)}
  /\ subscribeCalls = 1
  /\ regionLog = <<>>
  /\ startup = FirstRun
  /\ overpassCacheRef = {}
  /\ watchRuns = <<EstablishedRun>>
  /\ locationSub = <<1>>
  /\ positionSubs = {1}
  /\ watchDropped = 0
  /\ docMap = {}
  /\ emitted = {}
  /\ lastSnap = [g \in GeohashRanges |-> {}]
  /\ pendingUndos = {}
  /\ alerts = {}

Init == InitSession /\ probe = IdleProbe

(* ------------------------------ rendering ------------------------------ *)

\* the remote id a marker's data stands for
RemoteIdOf(data, isCloud) == IF isCloud THEN data.id ELSE data.firestoreId

\* renderMarker: the markers (none or one) drawn for a record at time t
renderMarker(data, isCloud, t) ==
  LET duration == DurationOr30(data.durationSeconds)
      st == getPinStatus(data.createdAt, duration, t)
  IN IF ~safeCoord(data.latitude, data.longitude) THEN {}
     ELSE IF isCloud /\ data.status = "resolved" THEN {}
     ELSE IF st.expired THEN {}
     ELSE {[isCloud |-> isCloud, id |-> data.id,
            rid |-> RemoteIdOf(data, isCloud), color |-> st.color]}

\* the local records' firestoreIds: spots.some((s) => s.firestoreId === r.id)
LocalRemoteIds(sp) == {sp[i].firestoreId : i \in 1..Len(sp)}

\* the cloud list without the filter on the local records' firestoreIds
VisibleCloud_NoDedup(sp, cloud, hidden) ==
  {r \in cloud : r.id \notin hidden}

\* cloudReports.filter(not hidden).filter(not a local record's firestoreId)
VisibleCloud(sp, cloud, hidden) ==
  {r \in cloud : r.id \notin hidden /\ r.id \notin LocalRemoteIds(sp)}

\* the children of <MapView>: the markers of one render at time t
MarkersOf(sp, cloud, hidden, t) ==
  UNION {renderMarker(sp[i], FALSE, t) : i \in 1..Len(sp)}
  \cup UNION {renderMarker(r, TRUE, t) : r \in VisibleCloud(sp, cloud, hidden)}

\* the markers of a render in the current state
Markers == MarkersOf(spots, cloudReports, hiddenCloudIds, now)

\* the status renderMarker decides for a record: a resolved cloud report is
\* dropped before any time test, the rest follow getPinStatus
MarkerStatus(createdAt, durationSeconds, t, isCloud, status) ==
  LET st == getPinStatus(createdAt, DurationOr30(durationSeconds), t)
  IN IF isCloud /\ status = "resolved" THEN "claimed"
     ELSE IF st.expired THEN "expired"
     ELSE IF st.warning THEN "expiring"
     ELSE "fresh"

(* --------------------------- clock and ticker --------------------------- *)

\* time passes; the ticker fires before the clock moves past its deadline
AdvanceClock ==
  /\ now < nextTickAt
  /\ now' = now + ClockStep
  /\ UNCHANGED <<nextTickAt, alerts, storeVars, feedVars, removeVars, alertedIds,
                 arrivalVars, probe, form, takenRace,
                 regionVars, startup, overpassCacheRef, watchVars, boundsVars>>

\* the warning window of checkAlertsAndExpiration
InWarningWindow(createdAt, durationSeconds, t) ==
  LET age == getAgeInSeconds(createdAt, t)
      duration == DurationOr30(durationSeconds)
  IN age >= warningThresholdOf(duration) /\ age < duration

\* the sweep's filter when it removes nothing
stillValid_KeepsAll(prev, t) == prev

\* the sweep's filter with the comparison off by one (age <= duration)
stillValid_OffByOne(prev, t) ==
  SelectSeq(prev, LAMBDA spot :
    getAgeInSeconds(spot.createdAt, t) <= DurationOr30(spot.durationSeconds))

\* the sweep's filter when it also drops the oldest record it would keep
stillValid_AndOldest(prev, t) ==
  LET kept == SelectSeq(prev, LAMBDA spot :
                getAgeInSeconds(spot.createdAt, t) < DurationOr30(spot.durationSeconds))
  IN IF kept = <<>> THEN kept ELSE Tail(kept)

\* the sweep's filter: prev.filter((spot) => age < duration)
stillValid(prev, t) ==
  SelectSeq(prev, LAMBDA spot :
    getAgeInSeconds(spot.createdAt, t) < DurationOr30(spot.durationSeconds))

\* the expiry notifications when one is raised per removed spot
ExpiredAlerts_PerSpot(removedCount) ==
  {AlertOf("Parking Spots Expired", LocalId(k), 1) : k \in 1..removedCount}

\* the "Parking Spots Expired" alert, raised when removedCount > 0
ExpiredAlerts(removedCount) ==
  IF removedCount > 0 THEN {AlertOf("Parking Spots Expired", NoId, removedCount)} ELSE {}

\* the ticker fires: setTick, then the effect runs checkAlertsAndExpiration,
\* and the effect on [spots] persists the new list
Tick ==
  /\ now >= nextTickAt
  /\ nextTickAt' = nextTickAt + TICK_MS
  /\ LET mine == {spots[i] : i \in 1..Len(spots)}
         dueLocal == {s.id : s \in {x \in mine :
                        InWarningWindow(x.createdAt, x.durationSeconds, now)}}
         dueCloud == {r.id : r \in {x \in myReports :
                        InWarningWindow(x.createdAt, x.durationSeconds, now)}}
         fresh == (dueLocal \cup dueCloud) \ alertedIds
         kept == stillValid(spots, now)
         removedCount == Len(spots) - Len(kept)
     IN /\ alertedIds' = alertedIds \cup fresh
        /\ spots' = kept
        /\ storedSpots' = kept
        /\ alerts' = {AlertOf("Parking Spot Expiring Soon", i, 0) : i \in fresh}
                      \cup ExpiredAlerts(removedCount)
  /\ UNCHANGED <<now, saveCount, creating, feedVars, removeVars, arrivalVars, probe, form, takenRace,
                 regionVars, startup, overpassCacheRef, watchVars, boundsVars>>

(* ---------------------------- saving a spot ---------------------------- *)

\* String.prototype.trim on the rates the form can hold
trim(rate) == IF rate = " " THEN "" ELSE rate

\* the duration test of saveSpot when every duration is accepted
DurationAccepted_Any(totalSeconds) == TRUE

\* saveSpot: a total duration of 0 is refused
DurationAccepted(totalSeconds) == totalSeconds # 0

\* saveSpot: the record built from the form, the k-th of the session
NewSpot(k, coord, spotType, rate, totalSeconds, t) ==
  [id |-> LocalId(k),
   latitude |-> coord.latitude, longitude |-> coord.longitude,
   type |-> spotType,
   rate |-> IF spotType = "paid" THEN <<trim(rate)>> ELSE <<>>,
   createdAt |-> Num(t),
   durationSeconds |-> totalSeconds,
   firestoreId |-> NoId]

\* saveSpot up to the await of createParkingReport, for a free spot at the
\* fixed place with the duration given: the form is open, the duration is not
\* 0, no save is in progress
SaveSpot(totalSeconds) ==
  /\ creating = <<>>
  /\ DurationAccepted(totalSeconds)
  /\ saveCount' = saveCount + 1
  /\ creating' = <<[spot |-> NewSpot(saveCount + 1,
                                     [latitude |-> SpotLat, longitude |-> SpotLon],
                                     "free", "", totalSeconds, now),
                    docId |-> DocId(saveCount + 1),
                    written |-> FALSE]>>
  /\ alerts' = {}
  /\ UNCHANGED <<now, nextTickAt, spots, storedSpots, feedVars, removeVars,
                 alertedIds, arrivalVars, probe, form, takenRace,
                 regionVars, startup, overpassCacheRef, watchVars, boundsVars>>

\* createParkingReport's addDoc is applied (the coordinates passed
\* sanitizeCoord): the report exists, open, with the server's timestamp
RemoteCreate ==
  /\ creating # <<>>
  /\ ~creating[1].written
  /\ safeCoord(creating[1].spot.latitude, creating[1].spot.longitude)
  /\ remote' = [remote EXCEPT ![creating[1].docId] =
                  [exists |-> TRUE, userId |-> Uid,
                   latitude |-> creating[1].spot.latitude,
                   longitude |-> creating[1].spot.longitude,
                   type |-> creating[1].spot.type,
                   rate |-> IF creating[1].spot.type = "paid"
                              THEN <<IF creating[1].spot.rate = <<>> THEN ""
                                     ELSE creating[1].spot.rate[1]>>
                              ELSE <<>>,
                   status |-> "open", createdAt |-> ServerTimestamp(now),
                   durationSeconds |-> creating[1].spot.durationSeconds]]
  /\ creating' = <<[creating[1] EXCEPT !.written = TRUE]>>
  /\ alerts' = {}
  /\ UNCHANGED <<now, nextTickAt, spots, storedSpots, saveCount, cloudReports,
                 myReports, removeVars, alertedIds, arrivalVars, probe, form, takenRace,
                 regionVars, startup, overpassCacheRef, watchVars, boundsVars>>

\* saveSpot after createParkingReport resolved: the record enters the Store
\* with its firestoreId, and becomes the last-reported spot (the position
\* effect re-runs and its callback captures this render's isAutoTaking)
CreateResolves ==
  /\ creating # <<>>
  /\ creating[1].written
  /\ LET newSpot == [creating[1].spot EXCEPT !.firestoreId = creating[1].docId]
         last == [firestoreId |-> creating[1].docId,
                  latitude |-> newSpot.latitude, longitude |-> newSpot.longitude]
     IN /\ spots' = Append(spots, newSpot)
        /\ storedSpots' = Append(spots, newSpot)
        /\ lastReported' = <<last>>
        /\ storedLast' = <<last>>
        /\ alerts' = {}
  /\ capturedIsAutoTaking' = isAutoTaking
  /\ creating' = <<>>
  /\ UNCHANGED <<now, nextTickAt, saveCount, feedVars, removeVars, alertedIds,
                 samplesSeen, samplesRef, dwellStartRef, alreadyAutoTakenRef,
                 isAutoTaking,
                 pendingClaims, claimCalls, undoState, undoTimerRef,
                 pendingUndos, probe, form, takenRace,
                 regionVars, startup, overpassCacheRef, watchVars, boundsVars>>

\* the record kept after a failed create, had it been given the remote id
KeptAfterFailure_Linked(call) == [call.spot EXCEPT !.firestoreId = call.docId]

\* saveSpot's catch block keeps newSpot as built, without a firestoreId
KeptAfterFailure(call) == call.spot

\* saveSpot after createParkingReport rejected (the write failed, or the
\* coordinates did not pass sanitizeCoord): the record is kept local-only
CreateRejects ==
  /\ creating # <<>>
  /\ ~creating[1].written
  /\ spots' = Append(spots, KeptAfterFailure(creating[1]))
  /\ storedSpots' = Append(spots, KeptAfterFailure(creating[1]))
  /\ creating' = <<>>
  /\ alerts' = {AlertOf("Firestore save failed", creating[1].spot.id, 0)}
  /\ UNCHANGED <<now, nextTickAt, saveCount, feedVars, removeVars, alertedIds,
                 arrivalVars, probe, form, takenRace,
                 regionVars, startup, overpassCacheRef, watchVars, boundsVars>>

(* --------------------------- the add-spot form -------------------------- *)

\* closeModal: the modal is hidden, pendingCoord dropped, the duration reset
closeModal(f) ==
  [f EXCEPT !.pendingCoord = <<>>, !.hours = 0, !.minutes = 0,
            !.seconds = DEFAULT_DURATION]

\* the cache entry of a place that is younger than OVERPASS_CACHE_MS at time t
FreshEntries(cache, key, t) ==
  {e \in cache : e.key = key /\ t - e.t < OVERPASS_CACHE_MS}

\* isNearRoadOrParkingOSM: a fresh cache entry answers; otherwise the lookup
\* is made and fetched is its outcome: "true" when it found elements, "false"
\* when it found none, "error" when the request failed or was not OK
isNearRoadOrParkingOSM(cache, key, fetched, t) ==
  IF FreshEntries(cache, key, t) # {}
    THEN IF (CHOOSE e \in FreshEntries(cache, key, t) : TRUE).ok
           THEN "true" ELSE "false"
    ELSE fetched

\* the cache isNearRoadOrParkingOSM leaves: the outcome of a lookup made is
\* stored under the place, a failed one as ok = true
CacheAfter(cache, key, fetched, t) ==
  IF FreshEntries(cache, key, t) # {} THEN cache
  ELSE {e \in cache : e.key # key}
         \cup {[key |-> key, ok |-> fetched # "false", t |-> t]}

\* handleMapLongPress goes on to open the modal unless the check returned
\* false: a check that threw is caught and the place allowed
OpensForm_OnlyVerified(osm) == osm = "true"

OpensForm(osm) == osm # "false"

\* handleMapLongPress: unless a save is in progress, the place is checked
\* against OSM (fetched is the outcome of the lookup, when one is made) and
\* the modal opens on it for a free spot without a rate
HandleMapLongPress(latitude, longitude, fetched) ==
  /\ creating = <<>>
  /\ LET key == <<latitude, longitude>>
         osm == isNearRoadOrParkingOSM(overpassCacheRef, key, fetched, now)
     IN /\ overpassCacheRef' = CacheAfter(overpassCacheRef, key, fetched, now)
        /\ IF ~OpensForm(osm)
             THEN /\ alerts' = {AlertOf("Not on a road/parking area", NoId, 0)}
                  /\ form' = form
             ELSE /\ alerts' = IF osm = "error"
                                 THEN {AlertOf("Could not verify location", NoId, 0)}
                                 ELSE {}
                  /\ form' = [form EXCEPT
                                !.pendingCoord = <<[latitude |-> latitude,
                                                    longitude |-> longitude]>>,
                                !.spotType = "free", !.rate = ""]
  /\ UNCHANGED <<now, nextTickAt, storeVars, feedVars, removeVars, alertedIds,
                 arrivalVars, probe, takenRace, regionVars, startup, watchVars, boundsVars>>

\* the free / paid buttons of the modal
SetSpotType(spotType) ==
  /\ form.pendingCoord # <<>>
  /\ form' = [form EXCEPT !.spotType = spotType]
  /\ alerts' = {}
  /\ UNCHANGED <<now, nextTickAt, storeVars, feedVars, removeVars, alertedIds,
                 arrivalVars, probe, takenRace,
                 regionVars, startup, overpassCacheRef, watchVars, boundsVars>>

\* the rate input of the modal, shown for a paid spot
SetRate(rate) ==
  /\ form.pendingCoord # <<>>
  /\ form.spotType = "paid"
  /\ form' = [form EXCEPT !.rate = rate]
  /\ alerts' = {}
  /\ UNCHANGED <<now, nextTickAt, storeVars, feedVars, removeVars, alertedIds,
                 arrivalVars, probe, takenRace,
                 regionVars, startup, overpassCacheRef, watchVars, boundsVars>>

\* the seconds picker of the modal, disabled while a save is in progress
SetSeconds(seconds) ==
  /\ form.pendingCoord # <<>>
  /\ creating = <<>>
  /\ form' = [form EXCEPT !.seconds = seconds]
  /\ alerts' = {}
  /\ UNCHANGED <<now, nextTickAt, storeVars, feedVars, removeVars, alertedIds,
                 arrivalVars, probe, takenRace,
                 regionVars, startup, overpassCacheRef, watchVars, boundsVars>>

\* the Cancel button of the modal, disabled while a save is in progress
CancelForm ==
  /\ form.pendingCoord # <<>>
  /\ creating = <<>>
  /\ form' = closeModal(form)
  /\ alerts' = {}
  /\ UNCHANGED <<now, nextTickAt, storeVars, feedVars, removeVars, alertedIds,
                 arrivalVars, probe, takenRace,
                 regionVars, startup, overpassCacheRef, watchVars, boundsVars>>

\* the Save button of the modal: saveSpot up to the await of
\* createParkingReport, on the form as it stands
SaveForm ==
  /\ form.pendingCoord # <<>>
  /\ creating = <<>>
  /\ LET totalSeconds == form.hours * 3600 + form.minutes * 60 + form.seconds
     IN IF ~DurationAccepted(totalSeconds)
          THEN /\ alerts' = {AlertOf("Invalid Duration", NoId, 0)}
               /\ UNCHANGED <<saveCount, creating, form>>
          ELSE /\ saveCount' = saveCount + 1
               /\ creating' = <<[spot |-> NewSpot(saveCount + 1, form.pendingCoord[1],
                                                  form.spotType, form.rate,
                                                  totalSeconds, now),
                                 docId |-> DocId(saveCount + 1),
                                 written |-> FALSE]>>
               /\ form' = closeModal(form)
               /\ alerts' = {}
  /\ UNCHANGED <<now, nextTickAt, spots, storedSpots, feedVars, removeVars,
                 alertedIds, arrivalVars, probe, takenRace,
                 regionVars, startup, overpassCacheRef, watchVars, boundsVars>>

(* ------------------------------ the feeds ------------------------------- *)

\* one report of a snapshot, as both subscriptions build it
ReportOf(d) ==
  [id |-> d, userId |-> remote[d].userId, latitude |-> remote[d].latitude,
   longitude |-> remote[d].longitude, status |-> remote[d].status,
   createdAt |-> remote[d].createdAt,
   durationSeconds |-> remote[d].durationSeconds]

\* subscribeToParkingReports: every report with sane coordinates
AllReports ==
  {ReportOf(d) : d \in {x \in AllDocIds :
      remote[x].exists /\ safeCoord(remote[x].latitude, remote[x].longitude)}}

\* a snapshot of the all-reports feed arrives: setCloudReports(reports)
CloudSnapshot ==
  /\ cloudReports' = AllReports
  /\ alerts' = {}
  /\ UNCHANGED <<now, nextTickAt, storeVars, remote, myReports, removeVars,
                 alertedIds, arrivalVars, probe, form, takenRace,
                 regionVars, startup, overpassCacheRef, watchVars, boundsVars>>

\* subscribeToMyParkingReports: the user's reports with sane coordinates,
\* whatever their status
MyReports ==
  {ReportOf(d) : d \in {x \in AllDocIds :
      /\ remote[x].exists /\ remote[x].userId = Uid
      /\ safeCoord(remote[x].latitude, remote[x].longitude)}}

\* a snapshot of the my-reports feed arrives: setMyReports(reports)
MySnapshot ==
  /\ myReports' = MyReports
  /\ alerts' = {}
  /\ UNCHANGED <<now, nextTickAt, storeVars, remote, cloudReports, removeVars,
                 alertedIds, arrivalVars, probe, form, takenRace,
                 regionVars, startup, overpassCacheRef, watchVars, boundsVars>>

(* --------------------------- removing a spot ---------------------------- *)

\* confirmRemoveSpot(id) from the marker modal of a local marker on screen:
\* spots.find captures the record and the "Remove Spot?" alert opens
ConfirmRemoveSpot(id) ==
  /\ removeDialog = <<>>
  /\ \E m \in Markers : ~m.isCloud /\ m.id = id
  /\ LET found == SelectSeq(spots, LAMBDA s : s.id = id)
     IN removeDialog' =
          <<[id |-> id,
             cloudId |-> IF found = <<>> THEN NoId ELSE found[1].firestoreId]>>
  /\ alerts' = {}
  /\ UNCHANGED <<now, nextTickAt, storeVars, feedVars, hiddenCloudIds,
                 pendingDeletes, alertedIds, arrivalVars, probe, form, takenRace,
                 regionVars, startup, overpassCacheRef, watchVars, boundsVars>>

\* "Cancel" in the alert
CancelRemove ==
  /\ removeDialog # <<>>
  /\ removeDialog' = <<>>
  /\ alerts' = {}
  /\ UNCHANGED <<now, nextTickAt, storeVars, feedVars, hiddenCloudIds,
                 pendingDeletes, alertedIds, arrivalVars, probe, form, takenRace,
                 regionVars, startup, overpassCacheRef, watchVars, boundsVars>>

\* the hidden set after "Remove" when the optimistic hide is left out
HideOnRemove_Never(hidden, cloudId) == hidden

\* setHiddenCloudIds(prev => prev + cloudId), only for a defined cloudId
HideOnRemove(hidden, cloudId) ==
  IF cloudId # NoId THEN hidden \cup {cloudId} ELSE hidden

\* "Remove" in the alert: the record leaves the Store at once; with a
\* firestoreId the cloud marker is hidden and deleteParkingReport is issued
RemovePressed ==
  /\ removeDialog # <<>>
  /\ LET id == removeDialog[1].id
         cloudId == removeDialog[1].cloudId
         kept == SelectSeq(spots, LAMBDA s : s.id # id)
     IN /\ spots' = kept
        /\ storedSpots' = kept
        /\ hiddenCloudIds' = HideOnRemove(hiddenCloudIds, cloudId)
        /\ pendingDeletes' = IF cloudId # NoId THEN pendingDeletes \cup {cloudId}
                                               ELSE pendingDeletes
        /\ alerts' = {}
  /\ removeDialog' = <<>>
  /\ UNCHANGED <<now, nextTickAt, saveCount, creating, feedVars, alertedIds,
                 arrivalVars, probe, form, takenRace,
                 regionVars, startup, overpassCacheRef, watchVars, boundsVars>>

\* deleteParkingReport resolved: the document is gone
DeleteResolves(cloudId) ==
  /\ cloudId \in pendingDeletes
  /\ pendingDeletes' = pendingDeletes \ {cloudId}
  /\ remote' = [remote EXCEPT ![cloudId] = NoDoc]
  /\ alerts' = {}
  /\ UNCHANGED <<now, nextTickAt, storeVars, cloudReports, myReports,
                 hiddenCloudIds, removeDialog, alertedIds, arrivalVars, probe, form, takenRace,
                 regionVars, startup, overpassCacheRef, watchVars, boundsVars>>

\* the hidden set after a failed delete when the rollback is left out
UnhideOnFailure_Never(hidden, cloudId) == hidden

\* setHiddenCloudIds(prev => prev - cloudId) in the catch block
UnhideOnFailure(hidden, cloudId) == hidden \ {cloudId}

\* deleteParkingReport rejected: un-hide and tell the user
DeleteRejects(cloudId) ==
  /\ cloudId \in pendingDeletes
  /\ pendingDeletes' = pendingDeletes \ {cloudId}
  /\ hiddenCloudIds' = UnhideOnFailure(hiddenCloudIds, cloudId)
  /\ alerts' = {AlertOf("Delete failed", cloudId, 0)}
  /\ UNCHANGED <<now, nextTickAt, storeVars, feedVars, removeDialog, alertedIds,
                 arrivalVars, probe, form, takenRace,
                 regionVars, startup, overpassCacheRef, watchVars, boundsVars>>

(* -------------------------- arrival detector ---------------------------- *)

\* [...samplesRef.current, sample].slice(-SAMPLE_WINDOW)
SlideWindow(window, sample) ==
  LET all == Append(window, sample)
  IN IF Len(all) <= SAMPLE_WINDOW THEN all
     ELSE SubSeq(all, Len(all) - SAMPLE_WINDOW + 1, Len(all))

SeqMax(S) == CHOOSE x \in S : \A y \in S : y <= x

\* the largest distance of a window sample from the window's oldest sample
maxDevOf(window) ==
  SeqMax({distanceMeters(window[i].lat, window[i].lon,
                         window[1].lat, window[1].lon) : i \in 1..Len(window)})

\* the dwell start after a disqualifying sample when the reset is left out
DwellAfterDisqualify_Keep(dwellStart) == dwellStart

\* the else branch of onLocationUpdate: dwellStartRef.current = null
DwellAfterDisqualify(dwellStart) == <<>>

\* alreadyAutoTakenRef.current.has(lastReported.firestoreId)
AlreadyAutoTaken(taken, firestoreId) == firestoreId \in taken

\* a position sample arrives at the subscription's callback: onLocationUpdate,
\* and autoMarkTaken up to its await when the dwell is long enough
Sample(lat) ==
  /\ samplesSeen' = samplesSeen + 1
  /\ alerts' = {}
  /\ IF lastReported = <<>> \/ lastReported[1].firestoreId = NoId
          \/ AlreadyAutoTaken(alreadyAutoTakenRef, lastReported[1].firestoreId)
     THEN UNCHANGED <<samplesRef, dwellStartRef, isAutoTaking, alreadyAutoTakenRef,
                      pendingClaims, claimCalls>>
     ELSE
       LET target == lastReported[1]
           window == SlideWindow(samplesRef, [lat |-> lat, lon |-> SpotLon])
           d == distanceMeters(lat, SpotLon, target.latitude, target.longitude)
           inside == d <= ARRIVE_RADIUS_M
           lowMovement == maxDevOf(window) <= MOVEMENT_VARIANCE_M
           dwellStart == IF dwellStartRef = <<>> THEN <<now>> ELSE dwellStartRef
           reached == inside /\ lowMovement /\ now - dwellStart[1] >= DWELL_MS
           claims == reached /\ Uid # "" /\ ~capturedIsAutoTaking
       IN /\ samplesRef' = window
          /\ dwellStartRef' = IF inside /\ lowMovement THEN dwellStart
                              ELSE DwellAfterDisqualify(dwellStartRef)
          /\ isAutoTaking' = IF claims THEN TRUE ELSE isAutoTaking
          /\ alreadyAutoTakenRef' =
               IF claims THEN alreadyAutoTakenRef \cup {target.firestoreId}
               ELSE alreadyAutoTakenRef
          /\ pendingClaims' = IF claims THEN pendingClaims \cup {target.firestoreId}
                              ELSE pendingClaims
          /\ claimCalls' = IF claims
                           THEN [claimCalls EXCEPT ![target.firestoreId] = @ + 1]
                           ELSE claimCalls
  /\ UNCHANGED <<now, nextTickAt, storeVars, feedVars, removeVars, alertedIds,
                 lastReported, storedLast, capturedIsAutoTaking, undoState,
                 undoTimerRef,
                 pendingUndos, probe, form, takenRace,
                 regionVars, startup, overpassCacheRef, watchVars, boundsVars>>

\* markReportTaken resolved: the report is resolved remotely; autoMarkTaken
\* opens the undo window and clears the last-reported spot, then awaits
\* AsyncStorage.removeItem.  The position effect re-runs in this render, in
\* which isAutoTaking is still true
ClaimResolves(firestoreId) ==
  /\ firestoreId \in pendingClaims
  /\ remote[firestoreId].exists
  /\ pendingClaims' = pendingClaims \ {firestoreId}
  /\ remote' = [remote EXCEPT ![firestoreId].status = "resolved"]
  /\ undoState' = <<[reportId |-> firestoreId, expiresAt |-> now + UNDO_WINDOW_MS,
                     isProcessing |-> FALSE]>>
  /\ undoTimerRef' = <<now + UNDO_WINDOW_MS>>
  /\ lastReported' = <<>>
  /\ storedLast' = <<>>
  /\ capturedIsAutoTaking' = IF lastReported # <<>> THEN isAutoTaking
                             ELSE capturedIsAutoTaking
  /\ alerts' = {}
  /\ UNCHANGED <<now, nextTickAt, storeVars, cloudReports, myReports, removeVars,
                 alertedIds, samplesSeen, samplesRef, dwellStartRef,
                 alreadyAutoTakenRef, isAutoTaking, claimCalls, pendingUndos, probe, form, takenRace,
                 regionVars, startup, overpassCacheRef, watchVars, boundsVars>>

\* the finally block of autoMarkTaken after a resolved claim:
\* setIsAutoTaking(false)
AutoTakeSettles ==
  /\ isAutoTaking
  /\ pendingClaims = {}
  /\ isAutoTaking' = FALSE
  /\ alerts' = {}
  /\ UNCHANGED <<now, nextTickAt, storeVars, feedVars, removeVars, alertedIds,
                 lastReported, storedLast, samplesSeen, samplesRef, dwellStartRef,
                 alreadyAutoTakenRef, capturedIsAutoTaking, pendingClaims,
                 claimCalls, undoState, undoTimerRef,
                 pendingUndos, probe, form, takenRace,
                 regionVars, startup, overpassCacheRef, watchVars, boundsVars>>

\* the already-claimed set after a failed claim when the rollback is left out
RollbackAutoTaken_Never(taken, firestoreId) == taken

\* alreadyAutoTakenRef.current.delete(firestoreId) in the catch block
RollbackAutoTaken(taken, firestoreId) == taken \ {firestoreId}

\* markReportTaken rejected: the already-claimed marker is rolled back
ClaimRejects(firestoreId) ==
  /\ firestoreId \in pendingClaims
  /\ pendingClaims' = pendingClaims \ {firestoreId}
  /\ alreadyAutoTakenRef' = RollbackAutoTaken(alreadyAutoTakenRef, firestoreId)
  /\ isAutoTaking' = FALSE
  /\ alerts' = {AlertOf("Auto-taken failed", firestoreId, 0)}
  /\ UNCHANGED <<now, nextTickAt, storeVars, feedVars, removeVars, alertedIds,
                 lastReported, storedLast, samplesSeen, samplesRef, dwellStartRef,
                 capturedIsAutoTaking, claimCalls, undoState, undoTimerRef,
                 pendingUndos, probe, form, takenRace,
                 regionVars, startup, overpassCacheRef, watchVars, boundsVars>>

(* ------------------------------- the undo ------------------------------- *)

\* the window test when an undo is accepted at any time
UndoWindowOpen_Always(state, t) == TRUE

\* the window test when an undo is accepted one clock step too long
UndoWindowOpen_Late(state, t) == t <= state.expiresAt + ClockStep

\* undoAutoTaken: the undo is refused when Date.now() > undoState.expiresAt
UndoWindowOpen(state, t) == t <= state.expiresAt

\* the user taps UNDO on the banner: undoAutoTaken up to its await of updateDoc
UndoPressed ==
  /\ undoState # <<>>
  /\ IF ~UndoWindowOpen(undoState[1], now)
       THEN undoState' = <<>> /\ pendingUndos' = pendingUndos
     ELSE IF undoState[1].isProcessing
       THEN UNCHANGED <<undoState, pendingUndos>>
     ELSE /\ undoState' = <<[undoState[1] EXCEPT !.isProcessing = TRUE]>>
          /\ pendingUndos' = pendingUndos \cup {undoState[1]}
  /\ alerts' = {}
  /\ UNCHANGED <<now, nextTickAt, storeVars, feedVars, removeVars, alertedIds,
                 lastReported, storedLast, samplesSeen, samplesRef, dwellStartRef,
                 alreadyAutoTakenRef, isAutoTaking, capturedIsAutoTaking,
                 pendingClaims, claimCalls, undoTimerRef, probe, form, takenRace,
                 regionVars, startup, overpassCacheRef, watchVars, boundsVars>>

\* updateDoc resolved: the report is open again; the id leaves the
\* already-claimed set, the banner is removed and the expiry timer cleared
UndoResolves(held) ==
  /\ held \in pendingUndos
  /\ remote[held.reportId].exists
  /\ pendingUndos' = pendingUndos \ {held}
  /\ remote' = [remote EXCEPT ![held.reportId].status = "open"]
  /\ alreadyAutoTakenRef' = alreadyAutoTakenRef \ {held.reportId}
  /\ undoState' = <<>>
  /\ undoTimerRef' = <<>>
  /\ alerts' = {}
  /\ UNCHANGED <<now, nextTickAt, storeVars, cloudReports, myReports, removeVars,
                 alertedIds, lastReported, storedLast, samplesSeen, samplesRef,
                 dwellStartRef, isAutoTaking, capturedIsAutoTaking, pendingClaims,
                 claimCalls, probe, form, takenRace,
                 regionVars, startup, overpassCacheRef, watchVars, boundsVars>>

\* updateDoc rejected: the banner is set from the undoState the call's closure
\* holds, and the user is told
UndoRejects(held) ==
  /\ held \in pendingUndos
  /\ pendingUndos' = pendingUndos \ {held}
  /\ undoState' = <<[held EXCEPT !.isProcessing = FALSE]>>
  /\ alerts' = {AlertOf("Undo failed", held.reportId, 0)}
  /\ UNCHANGED <<now, nextTickAt, storeVars, feedVars, removeVars, alertedIds,
                 lastReported, storedLast, samplesSeen, samplesRef, dwellStartRef,
                 alreadyAutoTakenRef, isAutoTaking, capturedIsAutoTaking,
                 pendingClaims, claimCalls, undoTimerRef, probe, form, takenRace,
                 regionVars, startup, overpassCacheRef, watchVars, boundsVars>>

\* the setTimeout of showUndoBanner fires, at its deadline or later
UndoTimerFires ==
  /\ undoTimerRef # <<>>
  /\ now >= undoTimerRef[1]
  /\ undoState' = <<>>
  /\ undoTimerRef' = <<>>
  /\ alerts' = {}
  /\ UNCHANGED <<now, nextTickAt, storeVars, feedVars, removeVars, alertedIds,
                 lastReported, storedLast, samplesSeen, samplesRef, dwellStartRef,
                 alreadyAutoTakenRef, isAutoTaking, capturedIsAutoTaking,
                 pendingClaims, claimCalls, pendingUndos, probe, form, takenRace,
                 regionVars, startup, overpassCacheRef, watchVars, boundsVars>>

(* ----------------------- marking a report as taken ---------------------- *)

\* markReportTaken's updateDoc as the remote store applies it to a document
markReportTaken(doc, uid, t) ==
  [doc EXCEPT !.status = "resolved", !.resolvedBy = uid,
              !.resolvedAt = ServerTimestamp(t)]

\* a claimant's client calls markReportTaken for the report (once each)
IssueTaken(uid) ==
  /\ uid \notin takenRace.issued
  /\ takenRace' = [takenRace EXCEPT !.issued = @ \cup {uid}, !.inFlight = @ \cup {uid}]
  /\ UNCHANGED <<now, nextTickAt, storeVars, feedVars, removeVars, alertedIds,
                 arrivalVars, alerts, probe, form,
                 regionVars, startup, overpassCacheRef, watchVars, boundsVars>>

\* the remote store applies a claimant's updateDoc
TakenApplied(uid) ==
  /\ uid \in takenRace.inFlight
  /\ takenRace' = [takenRace EXCEPT !.inFlight = @ \ {uid},
                            !.doc = markReportTaken(@, uid, now)]
  /\ UNCHANGED <<now, nextTickAt, storeVars, feedVars, removeVars, alertedIds,
                 arrivalVars, alerts, probe, form,
                 regionVars, startup, overpassCacheRef, watchVars, boundsVars>>

(* --------------------------- the visible region ------------------------ *)

\* clearTimeout(regionDebounceRef.current): the timer the ref names, when it
\* is still to fire, is cancelled
ClearTimeout_Noop(timers, ref) == timers

ClearTimeout(timers, ref) ==
  IF ref = <<>> THEN timers ELSE {t \in timers : t.id # ref.id}

\* handleRegionChangeComplete(r): the map reports a new region; the pending
\* timer is cleared and a new one armed for REGION_DEBOUNCE_MS later
HandleRegionChangeComplete(r) ==
  /\ mounted
  /\ LET timer == [id |-> Len(regionLog) + 1, region |-> r,
                   fireAt |-> now + REGION_DEBOUNCE_MS]
     IN /\ regionTimers' = ClearTimeout(regionTimers, regionDebounceRef) \cup {timer}
        /\ regionDebounceRef' = timer
  /\ regionLog' = Append(regionLog, [ev |-> "change", region |-> r, at |-> now])
  /\ UNCHANGED <<now, nextTickAt, storeVars, feedVars, removeVars, alertedIds,
                 arrivalVars, alerts, probe, form, takenRace, startup, overpassCacheRef, watchVars, boundsVars,
                 mounted, visibleRegion, subscriptions, subscribeCalls>>

\* the effect on [visibleRegion]: the cleanup of the previous run calls the
\* unsub of the listener that run created, then the new run subscribes
Resubscribed_NoCleanup(subs, calls, r) == subs \cup {ListenerOf(calls + 1, r)}

Resubscribed(subs, calls, r) ==
  {l \in subs : l.id # calls} \cup {ListenerOf(calls + 1, r)}

\* a debounce timer fires: setVisibleRegion(r), and the commit runs the
\* effect on [visibleRegion] (the map hands over a new Region object each
\* time, so the state always changes)
RegionTimerFires(timer) ==
  /\ mounted
  /\ timer \in regionTimers
  /\ now >= timer.fireAt
  /\ regionTimers' = regionTimers \ {timer}
  /\ visibleRegion' = timer.region
  /\ subscriptions' = Resubscribed(subscriptions, subscribeCalls, timer.region)
  /\ subscribeCalls' = subscribeCalls + 1
  /\ regionLog' = Append(regionLog,
                         [ev |-> "update", region |-> timer.region, at |-> now])
  /\ UNCHANGED <<now, nextTickAt, storeVars, feedVars, removeVars, alertedIds,
                 arrivalVars, alerts, probe, form, takenRace, startup, overpassCacheRef, watchVars, boundsVars,
                 mounted, regionDebounceRef>>

\* the screen unmounts: the cleanup of the effect on [visibleRegion] calls
\* unsub, the cleanup of the debounce effect clears the pending timer, the
\* cleanup of the position watch effect ends its run and removes locationSub
Unmount ==
  /\ mounted
  /\ mounted' = FALSE
  /\ subscriptions' = {l \in subscriptions : l.id # subscribeCalls}
  /\ regionTimers' = ClearTimeout(regionTimers, regionDebounceRef)
  /\ watchRuns' = RunsAfterCleanup(watchRuns)
  /\ positionSubs' = SubsAfterRemove(positionSubs, locationSub)
  /\ locationSub' = <<>>
  /\ UNCHANGED <<now, nextTickAt, storeVars, feedVars, removeVars, alertedIds,
                 arrivalVars, alerts, probe, form, takenRace, startup, overpassCacheRef,
                 visibleRegion, regionDebounceRef, subscribeCalls, regionLog,
                 watchDropped, boundsVars>>

\* time passes in steps of half the quiet period; a timer fires before the
\* clock moves past its deadline, and so does the ticker
AdvanceRegionClock ==
  /\ mounted
  /\ now + RegionClockStep <= nextTickAt
  /\ \A t \in regionTimers : now < t.fireAt
  /\ now' = now + RegionClockStep
  /\ UNCHANGED <<nextTickAt, alerts, storeVars, feedVars, removeVars, alertedIds,
                 arrivalVars, probe, form, takenRace,
                 regionVars, startup, overpassCacheRef, watchVars, boundsVars>>

(* ------------------------------ the start-up ---------------------------- *)

\* the list the setup effect builds from the stored one: records without
\* valid coordinates are dropped, durationSeconds || 30
Cleaned(stored) ==
  LET valid == SelectSeq(stored, LAMBDA s : safeCoord(s.latitude, s.longitude))
  IN [i \in DOMAIN valid |->
        [valid[i] EXCEPT !.durationSeconds = DurationOr30(@)]]

\* the process ends and the app is started again: what AsyncStorage and the
\* remote store hold stays, every useState and useRef is back at its initial
\* value, calls in flight are gone; the effects of the first render have
\* run, so the ticker is armed, the setup effect awaits its permission
\* requests and the persist effect has issued its write of the empty list
Restart ==
  /\ ~startup.restarted
  /\ startup' = [phase |-> "loading", restarted |-> TRUE, mountWrite |-> TRUE,
                 read |-> <<>>, persisted |-> storedSpots,
                 persistedLast |-> storedLast]
  /\ nextTickAt' = now + TICK_MS
  /\ spots' = <<>>
  /\ creating' = <<>>
  /\ cloudReports' = {}
  /\ myReports' = {}
  /\ hiddenCloudIds' = {}
  /\ removeDialog' = <<>>
  /\ pendingDeletes' = {}
  /\ alertedIds' = {}
  /\ lastReported' = <<>>
  /\ samplesSeen' = 0
  /\ samplesRef' = <<>>
  /\ dwellStartRef' = <<>>
  /\ alreadyAutoTakenRef' = {}
  /\ isAutoTaking' = FALSE
  /\ capturedIsAutoTaking' = FALSE
  /\ pendingClaims' = {}
  /\ undoState' = <<>>
  /\ undoTimerRef' = <<>>
  /\ pendingUndos' = {}
  /\ alerts' = {}
  /\ form' = ClosedForm
  /\ mounted' = TRUE
  /\ visibleRegion' = InitialRegion
  /\ regionTimers' = {}
  /\ regionDebounceRef' = <<>>
  /\ subscriptions' = {ListenerOf(1, InitialRegion)}
  /\ subscribeCalls' = 1
  /\ regionLog' = <<>>
  /\ overpassCacheRef' = {}
  /\ watchRuns' = <<EstablishedRun>>
  /\ locationSub' = <<1>>
  /\ positionSubs' = {1}
  /\ watchDropped' = 0
  /\ docMap' = {}
  /\ emitted' = {}
  /\ lastSnap' = [g \in GeohashRanges |-> {}]
  /\ UNCHANGED <<now, storedSpots, storedLast, saveCount, remote, claimCalls,
                 probe, takenRace>>

\* the persist effect's setItem of the first render's empty list lands
MountWriteLands ==
  /\ startup.mountWrite
  /\ storedSpots' = <<>>
  /\ startup' = [startup EXCEPT !.mountWrite = FALSE]
  /\ UNCHANGED <<now, nextTickAt, spots, saveCount, creating, feedVars,
                 removeVars, alertedIds, arrivalVars, alerts, probe, form,
                 takenRace, regionVars, overpassCacheRef, watchVars, boundsVars>>

\* the setup effect's AsyncStorage.getItem(STORAGE_KEY) reads the storage
GetItemReads ==
  /\ startup.phase = "loading"
  /\ startup' = [startup EXCEPT !.phase = "read", !.read = storedSpots]
  /\ UNCHANGED <<now, nextTickAt, storeVars, feedVars, removeVars, alertedIds,
                 arrivalVars, alerts, probe, form, takenRace, regionVars, overpassCacheRef, watchVars, boundsVars>>

\* the setup effect continues after getItem: setSpots(cleaned) replaces the
\* list, and the persist effect writes it (an earlier write still on its way
\* lands before this one)
LoadResolves ==
  /\ startup.phase = "read"
  /\ spots' = Cleaned(startup.read)
  /\ storedSpots' = Cleaned(startup.read)
  /\ startup' = [startup EXCEPT !.phase = "last", !.mountWrite = FALSE]
  /\ UNCHANGED <<now, nextTickAt, saveCount, creating, feedVars, removeVars,
                 alertedIds, arrivalVars, alerts, probe, form, takenRace,
                 regionVars, overpassCacheRef, watchVars, boundsVars>>

\* the setup effect reads LAST_REPORTED_KEY: setLastReported when there is
\* one (the position effect re-runs and captures this render's isAutoTaking)
LoadLastReported ==
  /\ startup.phase = "last"
  /\ lastReported' = IF storedLast # <<>> THEN storedLast ELSE lastReported
  /\ capturedIsAutoTaking' = IF storedLast # <<>> THEN isAutoTaking
                              ELSE capturedIsAutoTaking
  /\ startup' = [startup EXCEPT !.phase = "done"]
  /\ UNCHANGED <<now, nextTickAt, storeVars, feedVars, removeVars, alertedIds,
                 storedLast, samplesSeen, samplesRef, dwellStartRef,
                 alreadyAutoTakenRef, isAutoTaking, pendingClaims, claimCalls,
                 undoState, undoTimerRef, pendingUndos, alerts, probe, form,
                 takenRace, regionVars, overpassCacheRef, watchVars, boundsVars>>

(* --------------------------- the position watch ------------------------- *)

\* lastReported or uid changed (setLastReported by saveSpot or autoMarkTaken,
\* setUid by onAuthStateChanged): the effect on [lastReported, uid] runs its
\* cleanup, then starts a new run, which awaits the permission request
WatchDepsChange ==
  /\ mounted
  /\ watchRuns' = Append(RunsAfterCleanup(watchRuns),
                         [mounted |-> TRUE, phase |-> "permission"])
  /\ positionSubs' = SubsAfterRemove(positionSubs, locationSub)
  /\ locationSub' = <<>>
  /\ UNCHANGED <<now, nextTickAt, storeVars, feedVars, removeVars, alertedIds,
                 arrivalVars, alerts, probe, form, takenRace, regionVars, startup,
                 overpassCacheRef, watchDropped, boundsVars>>

\* requestForegroundPermissionsAsync resolved in run r: when not granted the
\* run ends; otherwise locationSub is removed and cleared and
\* watchPositionAsync is called
PermissionResolves(r, status) ==
  /\ r \in DOMAIN watchRuns
  /\ watchRuns[r].phase = "permission"
  /\ IF status # "granted"
       THEN /\ watchRuns' = [watchRuns EXCEPT ![r].phase = "ended"]
            /\ UNCHANGED <<positionSubs, locationSub>>
       ELSE /\ watchRuns' = [watchRuns EXCEPT ![r].phase = "watching"]
            /\ positionSubs' = SubsAfterRemove(positionSubs, locationSub)
            /\ locationSub' = <<>>
  /\ UNCHANGED <<now, nextTickAt, storeVars, feedVars, removeVars, alertedIds,
                 arrivalVars, alerts, probe, form, takenRace, regionVars, startup,
                 overpassCacheRef, watchDropped, boundsVars>>

\* watchPositionAsync resolved in run r: the subscription it created is
\* stored in locationSub
WatchResolves(r) ==
  /\ r \in DOMAIN watchRuns
  /\ watchRuns[r].phase = "watching"
  /\ watchRuns' = [watchRuns EXCEPT ![r].phase = "ended"]
  /\ positionSubs' = positionSubs \cup {r}
  /\ locationSub' = <<r>>
  /\ UNCHANGED <<now, nextTickAt, storeVars, feedVars, removeVars, alertedIds,
                 arrivalVars, alerts, probe, form, takenRace, regionVars, startup,
                 overpassCacheRef, watchDropped, boundsVars>>

\* a subscription delivers a position: the callback of the run that created
\* it returns when its mounted flag is false, and calls onLocationUpdate
\* otherwise
WatchSample(sub, lat) ==
  /\ sub \in positionSubs
  /\ IF watchRuns[sub].mounted
       THEN Sample(lat)
       ELSE /\ watchDropped' = watchDropped + 1
            /\ UNCHANGED <<now, nextTickAt, storeVars, feedVars, removeVars,
                           alertedIds, arrivalVars, alerts, probe, form,
                           takenRace, regionVars, startup, overpassCacheRef,
                           watchRuns, locationSub, positionSubs, boundsVars>>

(* ------------------------ the reports in bounds ------------------------- *)

\* the geohash range a place falls in
RangeOf(latitude, longitude) ==
  IF 2 * latitude < ReportBounds.minLat + ReportBounds.maxLat
    THEN "south" ELSE "north"

\* the documents of a range's query: status == "open", geohash in the range
QueryDocs(g) ==
  {d \in AllDocIds : /\ remote[d].exists
                     /\ remote[d].status = "open"
                     /\ RangeOf(remote[d].latitude, remote[d].longitude) = g}

\* the strict bounding-box check of the snapshot handler
InsideBounds(latitude, longitude) ==
  /\ latitude >= ReportBounds.minLat /\ latitude <= ReportBounds.maxLat
  /\ longitude >= ReportBounds.minLng /\ longitude <= ReportBounds.maxLng

\* the snapshot handler's loop over snap.docs: a document outside the box is
\* deleted from docMap, every other one is set
DocMapAfter(map, docs) ==
  {e \in map : e.id \notin docs}
    \cup {ReportOf(d) : d \in {x \in docs :
                               InsideBounds(remote[x].latitude, remote[x].longitude)}}

\* a snapshot of one range's query arrives at its listener: docMap is
\* updated from snap.docs and emit() passes its values to onData
InBoundsSnapshot(g) ==
  /\ docMap' = DocMapAfter(docMap, QueryDocs(g))
  /\ emitted' = DocMapAfter(docMap, QueryDocs(g))
  /\ lastSnap' = [lastSnap EXCEPT ![g] = QueryDocs(g)]
  /\ UNCHANGED <<now, nextTickAt, storeVars, feedVars, removeVars, alertedIds,
                 arrivalVars, alerts, probe, form, takenRace, regionVars, startup,
                 overpassCacheRef, watchVars>>

(* --------------------------- the specification -------------------------- *)

\* The session without position samples (the position effect returns when the
\* permission is not granted); the my-reports feed delivers nothing after its
\* first, empty snapshot
Next ==
  \/ now + ClockStep <= MaxTime /\ AdvanceClock
  \/ Tick
  \/ \E totalSeconds \in Durations : saveCount < MaxSaves /\ SaveSpot(totalSeconds)
  \/ RemoteCreate
  \/ CreateResolves
  \/ CreateRejects
  \/ CloudSnapshot
  \/ \E k \in 1..MaxSaves : ConfirmRemoveSpot(LocalId(k))
  \/ CancelRemove
  \/ RemovePressed
  \/ \E d \in AllDocIds : DeleteResolves(d)
  \/ \E d \in AllDocIds : DeleteRejects(d)

Spec == Init /\ [][Next]_vars

\* The session with position samples, in which every create succeeds and the
\* user removes nothing
NextArrival ==
  \/ now + ClockStep <= MaxTime /\ AdvanceClock
  \/ Tick
  \/ \E totalSeconds \in Durations : saveCount < MaxSaves /\ SaveSpot(totalSeconds)
  \/ RemoteCreate
  \/ CreateResolves
  \/ CloudSnapshot
  \/ \E lat \in SampleLats : samplesSeen < MaxSamples /\ Sample(lat)
  \/ \E d \in AllDocIds : ClaimResolves(d)
  \/ \E d \in AllDocIds : ClaimRejects(d)
  \/ AutoTakeSettles

SpecArrival == Init /\ [][NextArrival]_vars

\* A session long enough for the window to slide: one spot, samples at the
\* spot and far from it, every create succeeds, the feeds are silent
NextDwell ==
  \/ now + ClockStep <= MaxTime /\ AdvanceClock
  \/ Tick
  \/ \E totalSeconds \in Durations :
       saveCount < MaxDwellSaves /\ SaveSpot(totalSeconds)
  \/ RemoteCreate
  \/ CreateResolves
  \/ \E lat \in DwellLats : samplesSeen < MaxDwellSamples /\ Sample(lat)
  \/ \E d \in AllDocIds : ClaimResolves(d)
  \/ \E d \in AllDocIds : ClaimRejects(d)
  \/ AutoTakeSettles

SpecDwell == Init /\ [][NextDwell]_vars

\* The app is suspended for a while: the wall clock read by Date.now() moves
\* on and no timer callback runs; the ticker resumes where it stood
SuspendMs == UNDO_WINDOW_MS - ClockStep

Suspend ==
  /\ now' = now + SuspendMs
  /\ nextTickAt' = nextTickAt + SuspendMs
  /\ UNCHANGED <<alerts, storeVars, feedVars, removeVars, alertedIds,
                 arrivalVars, probe, form, takenRace,
                 regionVars, startup, overpassCacheRef, watchVars, boundsVars>>

\* A session that follows the undo window to its end: the user saves spots and
\* position samples arrive, it is suspended once, for a little less than the
\* undo window, and goes on for some clock steps.
\* Every position sample is at the spot, every create and claim succeeds and
\* the feeds are silent
MaxUndoEarly == Epoch + MaxUndoClockSteps * ClockStep
MaxUndoTime == MaxUndoEarly + SuspendMs + MaxUndoOverrun * ClockStep

NextUndo ==
  \/ /\ now + ClockStep <= MaxUndoEarly \/ now >= Epoch + SuspendMs
     /\ now + ClockStep <= MaxUndoTime
     /\ AdvanceClock
  \/ now <= MaxUndoEarly /\ Suspend
  \/ Tick
  \/ \E totalSeconds \in Durations :
       now <= MaxUndoEarly /\ saveCount < MaxSaves /\ SaveSpot(totalSeconds)
  \/ RemoteCreate
  \/ CreateResolves
  \/ now <= MaxUndoEarly /\ samplesSeen < MaxUndoSamples /\ Sample(SpotLat)
  \/ \E d \in AllDocIds : ClaimResolves(d)
  \/ AutoTakeSettles
  \/ UndoPressed
  \/ \E held \in pendingUndos : UndoResolves(held)
  \/ \E held \in pendingUndos : UndoRejects(held)
  \/ UndoTimerFires

SpecUndo == Init /\ [][NextUndo]_vars

\* The life of a report's claim: a session suspended once like the one above,
\* with the cloud feed, the removal of spots, and claims that may fail
NextClaim ==
  \/ /\ now + ClockStep <= MaxUndoEarly \/ now >= Epoch + SuspendMs
     /\ now + ClockStep <= MaxUndoTime
     /\ AdvanceClock
  \/ now <= MaxUndoEarly /\ Suspend
  \/ Tick
  \/ \E totalSeconds \in Durations :
       now <= MaxUndoEarly /\ saveCount < MaxClaimSaves /\ SaveSpot(totalSeconds)
  \/ RemoteCreate
  \/ CreateResolves
  \/ CloudSnapshot
  \/ \E k \in 1..MaxClaimSaves : ConfirmRemoveSpot(LocalId(k))
  \/ CancelRemove
  \/ RemovePressed
  \/ \E d \in AllDocIds : DeleteResolves(d)
  \/ \E d \in AllDocIds : DeleteRejects(d)
  \/ now <= MaxUndoEarly /\ samplesSeen < MaxUndoSamples /\ Sample(SpotLat)
  \/ \E d \in AllDocIds : ClaimResolves(d)
  \/ \E d \in AllDocIds : ClaimRejects(d)
  \/ AutoTakeSettles
  \/ UndoPressed
  \/ \E held \in pendingUndos : UndoResolves(held)
  \/ \E held \in pendingUndos : UndoRejects(held)
  \/ UndoTimerFires

SpecClaim == Init /\ [][NextClaim]_vars

\* The session at the add-spot form: long presses, the form's inputs, Save and
\* Cancel, creates that succeed or fail, the cloud feed and the ticker
MaxFormTime == Epoch + MaxFormClockSteps * ClockStep

NextForm ==
  \/ now + ClockStep <= MaxFormTime /\ AdvanceClock
  \/ Tick
  \/ \E latitude \in FormLats, osm \in OsmOutcomes :
       saveCount < MaxFormSaves /\ HandleMapLongPress(latitude, SpotLon, osm)
  \/ \E spotType \in SpotTypes : SetSpotType(spotType)
  \/ \E rate \in FormRates : SetRate(rate)
  \/ \E seconds \in FormSeconds : SetSeconds(seconds)
  \/ CancelForm
  \/ SaveForm
  \/ RemoteCreate
  \/ CreateResolves
  \/ CreateRejects
  \/ CloudSnapshot

SpecForm == Init /\ [][NextForm]_vars

\* Several claimants mark one report as taken while the clock runs
MaxTakenTime == Epoch + MaxTakenClockSteps * ClockStep

NextTaken ==
  \/ now + ClockStep <= MaxTakenTime /\ AdvanceClock
  \/ Tick
  \/ \E uid \in Claimants : IssueTaken(uid)
  \/ \E uid \in Claimants : TakenApplied(uid)

SpecTaken == Init /\ [][NextTaken]_vars

\* The session with the my-reports feed: the user's own reports come back as
\* remote echoes and the ticker raises the alerts
NextAlerts ==
  \/ now + ClockStep <= MaxTime /\ AdvanceClock
  \/ Tick
  \/ \E totalSeconds \in Durations :
       saveCount < MaxAlertSaves /\ SaveSpot(totalSeconds)
  \/ RemoteCreate
  \/ CreateResolves
  \/ CreateRejects
  \/ CloudSnapshot
  \/ MySnapshot

SpecAlerts == Init /\ [][NextAlerts]_vars

\* the map is panned and zoomed: region changes, their debounce and the
\* re-subscription of the report feed, until the screen unmounts
ChangesLogged == Cardinality({i \in DOMAIN regionLog : regionLog[i].ev = "change"})

MaxRegionTime == Epoch + MaxRegionClockSteps * RegionClockStep

NextRegion ==
  \/ now < MaxRegionTime /\ AdvanceRegionClock
  \/ mounted /\ Tick
  \/ \E r \in Regions : ChangesLogged < MaxRegionChanges /\ HandleRegionChangeComplete(r)
  \/ \E timer \in regionTimers : RegionTimerFires(timer)
  \/ Unmount

SpecRegion == Init /\ [][NextRegion]_vars

\* a process saves spots, the app is restarted, and the new process loads
\* what was stored while the user goes on saving; the handlers that write
\* the storage run once the write issued at mount has landed, AsyncStorage
\* keeping the order of the writes
NextStartup ==
  \/ now + ClockStep <= MaxStartupTime /\ AdvanceClock
  \/ ~startup.mountWrite /\ Tick
  \/ \E totalSeconds \in StartupDurations :
       saveCount < MaxStartupSaves /\ SaveSpot(totalSeconds)
  \/ RemoteCreate
  \/ ~startup.mountWrite /\ CreateResolves
  \/ ~startup.mountWrite /\ CreateRejects
  \/ Restart
  \/ MountWriteLands
  \/ GetItemReads
  \/ LoadResolves
  \/ LoadLastReported

SpecStartup == Init /\ [][NextStartup]_vars

\* long presses on the map and the OSM check with its cache: the user
\* presses places and cancels the form, the app is suspended up to twice so
\* that cache entries grow older than OVERPASS_CACHE_MS
MaxPressSuspends == 2

NextLongPress ==
  \/ /\ (now - Epoch) % SuspendMs < MaxPressClockSteps * ClockStep
     /\ AdvanceClock
  \/ now < Epoch + MaxPressSuspends * SuspendMs /\ Suspend
  \/ Tick
  \/ \E latitude \in FormLats, fetched \in OsmOutcomes :
       HandleMapLongPress(latitude, SpotLon, fetched)
  \/ CancelForm

SpecLongPress == Init /\ [][NextLongPress]_vars

\* the position watch effect under changes of its dependencies and the
\* unmount of the screen, its permission requests and watchPositionAsync
\* calls resolving in any order, with position samples from every
\* subscription that exists
NextWatch ==
  \/ Len(watchRuns) < MaxWatchRuns /\ WatchDepsChange
  \/ \E r \in 1..MaxWatchRuns, status \in PermissionStatuses :
       PermissionResolves(r, status)
  \/ \E r \in 1..MaxWatchRuns : WatchResolves(r)
  \/ \E sub \in 1..MaxWatchRuns :
       samplesSeen + watchDropped < MaxWatchSamples /\ WatchSample(sub, SpotLat)
  \/ Unmount

SpecWatch == Init /\ [][NextWatch]_vars

\* reports are saved and removed while the listeners of
\* subscribeToParkingReportsInBounds receive the snapshots of their ranges
NextInBounds ==
  \/ now + ClockStep <= MaxTime /\ AdvanceClock
  \/ Tick
  \/ \E totalSeconds \in Durations : saveCount < MaxSaves /\ SaveSpot(totalSeconds)
  \/ RemoteCreate
  \/ CreateResolves
  \/ \E k \in 1..MaxSaves : ConfirmRemoveSpot(LocalId(k))
  \/ RemovePressed
  \/ \E d \in AllDocIds : DeleteResolves(d)
  \/ \E g \in GeohashRanges : InBoundsSnapshot(g)

SpecInBounds == Init /\ [][NextInBounds]_vars

(* ------------------- the status evaluation on its own ------------------- *)

\* the records and reading times a status evaluation is tried on: created at
\* Epoch (a local number of milliseconds or a server timestamp), durations of
\* 1..MaxEvalDuration seconds, read from two seconds before creation (a clock
\* behind the server's) to past the longest duration, in half seconds
ProbeInputs ==
  {[createdAt |-> c, durationSeconds |-> d, now |-> Epoch + k * ClockStep,
    isCloud |-> src.isCloud, status |-> src.status, out |-> "none"] :
     c \in {Num(Epoch), ServerTimestamp(Epoch)},
     d \in 1..MaxEvalDuration,
     k \in -4..(2 * MaxEvalDuration + 4),
     src \in {[isCloud |-> FALSE, status |-> "open"],
              [isCloud |-> TRUE, status |-> "open"],
              [isCloud |-> TRUE, status |-> "resolved"]}}

InitEval == InitSession /\ probe \in ProbeInputs

\* one record goes through renderMarker's decision
Evaluate ==
  /\ probe.out = "none"
  /\ probe' = [probe EXCEPT !.out =
                 MarkerStatus(probe.createdAt, probe.durationSeconds, probe.now,
                              probe.isCloud, probe.status)]
  /\ UNCHANGED <<now, nextTickAt, storeVars, feedVars, removeVars, alertedIds,
                 arrivalVars, alerts, form, takenRace,
                 regionVars, startup, overpassCacheRef, watchVars, boundsVars>>

NextEval == Evaluate

SpecEval == InitEval /\ [][NextEval]_vars

(* ------------------------------ properties ------------------------------ *)

\* the age of a probe in whole seconds, from its creation time in milliseconds
ProbeAge ==
  LET createdMs == IF probe.createdAt.kind = "timestamp"
                   THEN probe.createdAt.v * 1000 ELSE probe.createdAt.v
  IN (probe.now - createdMs) \div 1000

\* C1: the status of a record is decided in this order: claimed when the
\* record's claim state is set (a cloud report whose status is resolved);
\* else expired when age >= durationSeconds; else expiring when
\* age >= floor(0.9 * durationSeconds), which for a whole age is
\* 10 * (age + 1) > 9 * durationSeconds; else fresh
C1_StatusPriority ==
  probe.out # "none" =>
    probe.out =
      IF probe.isCloud /\ probe.status = "resolved" THEN "claimed"
      ELSE IF ProbeAge >= probe.durationSeconds THEN "expired"
      ELSE IF 10 * (ProbeAge + 1) > 9 * probe.durationSeconds THEN "expiring"
      ELSE "fresh"

\* C1 witness: a 30-second spot read at age 27 is evaluated as expiring
C1_Witness ==
  /\ probe.out = "expiring"
  /\ probe.durationSeconds = 30
  /\ ProbeAge = 27
  /\ ~probe.isCloud

\* a record of the Store or of a feed is expired at time t: its age in whole
\* seconds has reached its duration
ExpiredAt(data, t) ==
  getAgeInSeconds(data.createdAt, t) >= DurationOr30(data.durationSeconds)

\* the positions of the Store's records that are expired now
ExpiredPositions == {i \in 1..Len(spots) : ExpiredAt(spots[i], now)}

\* C2: a tick's sweep removes from the Store exactly the records whose status
\* is expired at that instant; the survivors stay, unchanged and in order; the
\* number removed is the number the "Parking Spots Expired" notification
\* carries, and no such notification is raised when nothing was removed
C2_SweepExact ==
  [][nextTickAt' # nextTickAt =>
       /\ spots' = SelectSeq(spots, LAMBDA s : ~ExpiredAt(s, now))
       /\ {a \in alerts' : a.title = "Parking Spots Expired"} =
            IF ExpiredPositions = {} THEN {}
            ELSE {AlertOf("Parking Spots Expired", NoId, Cardinality(ExpiredPositions))}
    ]_vars

\* C2 witness: a sweep has just removed one expired record, told the user of
\* one, and left another record in the Store
C2_Witness ==
  /\ AlertOf("Parking Spots Expired", NoId, 1) \in alerts
  /\ Len(spots) = 1
  /\ saveCount = 2

\* C3: no marker is rendered for a record that is expired, whether the record
\* is a local one or a cloud report
C3_NoExpiredMarker ==
  /\ \A i \in 1..Len(spots) :
       ExpiredAt(spots[i], now) =>
         ~\E m \in Markers : ~m.isCloud /\ m.id = spots[i].id
  /\ \A r \in cloudReports :
       ExpiredAt(r, now) => ~\E m \in Markers : m.isCloud /\ m.id = r.id

\* C3 witness: an expired local record is still in the Store (the sweep has
\* not run yet) next to an expired open cloud report that nothing else hides
C3_Witness ==
  /\ \E i \in 1..Len(spots) : ExpiredAt(spots[i], now)
  /\ \E r \in cloudReports :
       /\ ExpiredAt(r, now)
       /\ r.status = "open"
       /\ r.id \notin hiddenCloudIds
       /\ r.id \notin LocalRemoteIds(spots)

\* C4: the ticker is never overdue, so the sweep runs within one tick period
\* of any instant; every sweep leaves no expired record in the Store; and the
\* persisted list always equals the Store, so it is rewritten without the
\* removed records
C4_ExpiredGoneByNextTick ==
  /\ [](now <= nextTickAt /\ nextTickAt - now <= TICK_MS /\ storedSpots = spots)
  /\ [][nextTickAt' # nextTickAt =>
          /\ \A i \in 1..Len(spots') : ~ExpiredAt(spots'[i], now)
          /\ storedSpots' = spots'
          /\ \A i \in ExpiredPositions :
               \A j \in 1..Len(storedSpots') : storedSpots'[j].id # spots[i].id
       ]_vars

\* C4 witness: the tick that was due has just swept the one expired record:
\* the user is told, the Store and the persisted list are both empty
C4_Witness ==
  /\ AlertOf("Parking Spots Expired", NoId, 1) \in alerts
  /\ now = nextTickAt - TICK_MS
  /\ saveCount = 1
  /\ spots = <<>>
  /\ storedSpots = <<>>

\* C5: for every remote id at most one marker is rendered; while a local
\* record holds a remote id, no cloud report with that id is rendered
C5_OneMarkerPerRemoteId ==
  \A R \in AllDocIds :
    /\ Cardinality({m \in Markers : m.rid = R}) <= 1
    /\ R \in LocalRemoteIds(spots) => ~\E m \in Markers : m.isCloud /\ m.id = R

\* C5 witness: a local record and an open, unexpired, unhidden cloud report
\* stand for the same remote id, and the one marker shown is the local one
C5_Witness ==
  \E R \in AllDocIds :
    /\ \E r \in cloudReports :
         r.id = R /\ r.status = "open" /\ ~ExpiredAt(r, now) /\ R \notin hiddenCloudIds
    /\ \E m \in Markers : ~m.isCloud /\ m.rid = R

\* C6: a report whose remote status is resolved, as the feed has delivered it,
\* is not rendered: neither as a cloud report nor as the local record that
\* holds the report's remote id
C6_ResolvedNeverRendered ==
  \A m \in Markers :
    ~\E r \in cloudReports : r.id = m.rid /\ r.status = "resolved"

\* C7: from the confirmation of the removal of a spot that has a remote id
\* until the remote delete completes, no marker for that id is rendered,
\* whatever snapshots arrive meanwhile
C7_HiddenWhileDeleting ==
  \A R \in pendingDeletes : ~\E m \in Markers : m.rid = R

\* C7 witness: while the delete is in flight the feed holds the report, open
\* and unexpired
C7_Witness ==
  \E R \in pendingDeletes :
    \E r \in cloudReports : r.id = R /\ r.status = "open" /\ ~ExpiredAt(r, now)

\* a remote delete of R fails in this step: the call is over and the
\* collection is as it was
DeleteFailedStep(R) ==
  /\ R \in pendingDeletes
  /\ R \notin pendingDeletes'
  /\ remote' = remote

\* C8: when the remote delete of R fails, R leaves the hidden set, the cloud
\* report is rendered again if the feed holds it open and unexpired, and the
\* error is surfaced to the user; the removal from the Store did not wait for
\* the remote call (no local record holds R while the delete is in flight) and
\* is not undone by the failure
C8_DeleteFailureUnhides ==
  /\ [](\A R \in pendingDeletes : R \notin LocalRemoteIds(spots))
  /\ [][\A R \in AllDocIds :
          DeleteFailedStep(R) =>
            /\ R \notin hiddenCloudIds'
            /\ AlertOf("Delete failed", R, 0) \in alerts'
            /\ spots' = spots
            /\ (\E r \in cloudReports' :
                  r.id = R /\ r.status = "open" /\ ~ExpiredAt(r, now'))
                 => \E m \in Markers' : m.isCloud /\ m.id = R
       ]_vars

\* C8 witness: the delete of a report has just failed and the report is on
\* the map again, as a cloud marker
C8_Witness ==
  \E R \in AllDocIds :
    /\ AlertOf("Delete failed", R, 0) \in alerts
    /\ R \notin LocalRemoteIds(spots)
    /\ \E m \in Markers : m.isCloud /\ m.id = R

\* the detector processes the sample delivered in this step: a last-reported
\* spot is set and not marked as already auto-claimed
SampleProcessedStep ==
  /\ samplesSeen' # samplesSeen
  /\ lastReported # <<>>
  /\ lastReported[1].firestoreId \notin alreadyAutoTakenRef

\* the sample processed in this step is inside the arrival radius of the
\* last-reported spot and leaves the window stationary
QualifyingStep ==
  LET w == samplesRef'
      s == w[Len(w)]
  IN /\ SampleProcessedStep
     /\ distanceMeters(s.lat, s.lon, lastReported[1].latitude,
                       lastReported[1].longitude) <= ARRIVE_RADIUS_M
     /\ \A i \in 1..Len(w) :
          distanceMeters(w[i].lat, w[i].lon, w[1].lat, w[1].lon)
            <= MOVEMENT_VARIANCE_M

\* C9: with a last-reported spot R set, a qualifying sample that comes a full
\* dwell after the dwell started issues the remote claim for R, unless a claim
\* call is in progress; and the claim is issued only so: by a qualifying
\* sample, once per step, never for an R that is marked already auto-claimed
\* and never by the sample that starts the dwell
C9_ExactlyOneAutoClaim ==
  [][/\ (/\ QualifyingStep
         /\ dwellStartRef # <<>>
         /\ now - dwellStartRef[1] >= DWELL_MS
         /\ ~isAutoTaking)
          => /\ claimCalls'[lastReported[1].firestoreId]
                  = claimCalls[lastReported[1].firestoreId] + 1
             /\ lastReported[1].firestoreId \in alreadyAutoTakenRef'
     /\ claimCalls' # claimCalls
          => /\ QualifyingStep
             /\ dwellStartRef # <<>>
             /\ now - dwellStartRef[1] >= DWELL_MS
             /\ claimCalls' = [claimCalls EXCEPT ![lastReported[1].firestoreId] = @ + 1]
    ]_vars

\* a sample at latitude lat, were it appended to the window now, would be
\* outside the arrival radius of the last-reported spot or would make the
\* window non-stationary
Disqualifying(lat) ==
  LET w == SlideWindow(samplesRef, [lat |-> lat, lon |-> SpotLon])
  IN \/ distanceMeters(lat, SpotLon, lastReported[1].latitude,
                       lastReported[1].longitude) > ARRIVE_RADIUS_M
     \/ \E i \in 1..Len(w) :
          distanceMeters(w[i].lat, w[i].lon, w[1].lat, w[1].lon)
            > MOVEMENT_VARIANCE_M

\* C10 as stated: with a last-reported spot set, any delivered sample that is
\* outside the arrival radius or makes the window non-stationary clears the
\* dwell-start timestamp
C10_AnySampleResets ==
  [][\A lat \in DwellLats :
       (/\ samplesSeen' # samplesSeen
        /\ Sample(lat)
        /\ lastReported # <<>>
        /\ Disqualifying(lat))
         => dwellStartRef' = <<>>
    ]_vars

\* C10 amended: every sample the detector processes (a last-reported spot is
\* set and is not marked already auto-claimed) that is outside the arrival
\* radius or makes the window non-stationary clears the dwell-start timestamp;
\* a dwell start is recorded only by a qualifying sample when none is
\* recorded, as the time of that sample; and a claim is issued only when a
\* full dwell duration has elapsed since the recorded dwell start
C10_ProcessedSampleResets ==
  [][/\ (SampleProcessedStep /\ ~QualifyingStep) => dwellStartRef' = <<>>
     /\ (dwellStartRef' # dwellStartRef /\ dwellStartRef' # <<>>)
          => QualifyingStep /\ dwellStartRef = <<>> /\ dwellStartRef' = <<now>>
     /\ claimCalls' # claimCalls
          => /\ dwellStartRef # <<>>
             /\ now - dwellStartRef[1] >= DWELL_MS
             /\ dwellStartRef' = dwellStartRef
    ]_vars

\* C10 witness: the dwell had started with a sample at the spot, and a
\* processed sample outside the arrival radius has cleared it
C10_Witness ==
  /\ lastReported # <<>>
  /\ dwellStartRef = <<>>
  /\ Len(samplesRef) >= 2
  /\ samplesSeen = Len(samplesRef)
  /\ distanceMeters(samplesRef[1].lat, samplesRef[1].lon,
                    lastReported[1].latitude, lastReported[1].longitude)
       <= ARRIVE_RADIUS_M
  /\ distanceMeters(samplesRef[Len(samplesRef)].lat, samplesRef[Len(samplesRef)].lon,
                    lastReported[1].latitude, lastReported[1].longitude)
       > ARRIVE_RADIUS_M

\* the remote claim of R fails in this step: the call is over and the
\* collection is as it was
ClaimFailedStep(R) ==
  /\ R \in pendingClaims
  /\ R \notin pendingClaims'
  /\ remote' = remote

\* C11: when the remote claim of R fails, R leaves the already-auto-claimed
\* set, the failure is surfaced, and the last-reported pointer and the undo
\* state stay as they were; and while R is still the last-reported spot, a
\* later qualifying sample that comes a full dwell after the dwell start, with
\* no claim call in progress, issues the claim for R again
C11_ClaimFailureRollsBack ==
  [][/\ \A R \in AllDocIds :
          ClaimFailedStep(R) =>
            /\ R \notin alreadyAutoTakenRef'
            /\ AlertOf("Auto-taken failed", R, 0) \in alerts'
            /\ lastReported' = lastReported
            /\ storedLast' = storedLast
            /\ undoState' = undoState
            /\ undoTimerRef' = undoTimerRef
     /\ (/\ QualifyingStep
         /\ claimCalls[lastReported[1].firestoreId] >= 1
         /\ dwellStartRef # <<>>
         /\ now - dwellStartRef[1] >= DWELL_MS
         /\ ~isAutoTaking)
          => claimCalls'[lastReported[1].firestoreId]
               = claimCalls[lastReported[1].firestoreId] + 1
    ]_vars

\* C11 witness: the claim of the last-reported spot failed and a later
\* qualifying sample has issued it a second time
C11_Witness ==
  /\ lastReported # <<>>
  /\ claimCalls[lastReported[1].firestoreId] = 2
  /\ lastReported[1].firestoreId \in pendingClaims

\* an undo call for report R completes with success in this step
UndoSucceededStep(R) ==
  \E held \in pendingUndos :
    /\ held.reportId = R
    /\ held \notin pendingUndos'
    /\ undoState' = <<>>
    /\ alerts' = {}

\* report R was auto-claimed and is open again, with no claim or undo call
\* for it in flight
Reopened(R) ==
  /\ remote[R].exists
  /\ remote[R].status = "open"
  /\ claimCalls[R] >= 1
  /\ R \notin pendingClaims
  /\ R \notin alreadyAutoTakenRef
  /\ \A held \in pendingUndos : held.reportId # R

ExpiredOffer(R) ==
  /\ undoState # <<>>
  /\ undoState[1].reportId = R
  /\ now > undoState[1].expiresAt
  /\ \A held \in pendingUndos : held.reportId # R

\* C13: an undo requested after the window has expired is a no-op: whatever
\* happens while the banner of R is still shown past its expiry, an undo tap
\* included, no remote undo write for R is issued, R stays resolved and its
\* membership in the already-auto-claimed set does not change; and every undo
\* write that is issued is issued inside the window.
C13_LateUndoIsNoOp ==
  [][/\ \A R \in AllDocIds : ExpiredOffer(R) =>
          /\ \A held \in pendingUndos' : held.reportId # R
          /\ remote'[R] = remote[R]
          /\ (R \in alreadyAutoTakenRef') = (R \in alreadyAutoTakenRef)
     /\ \A held \in pendingUndos' \ pendingUndos : now <= held.expiresAt
    ]_vars

\* the undo was tapped after the expiry: the banner is gone while its timer is
\* overdue and still pending, and the report is still resolved
C13_Witness ==
  /\ undoState = <<>>
  /\ undoTimerRef # <<>>
  /\ now > undoTimerRef[1]
  /\ pendingUndos = {}
  /\ \E R \in AllDocIds : remote[R].status = "resolved" /\ R \in alreadyAutoTakenRef

\* the claim call for report R completes with success in this step
ClaimSucceededStep(R) ==
  /\ R \in pendingClaims
  /\ R \notin pendingClaims'
  /\ remote'[R].status = "resolved"

\* report R was reported after report Q (document ids are handed out in the
\* order of the saves)
ReportedAfter(R, Q) == R[2] > Q[2]

\* C14: there is at most one undo opportunity at a time.  A claim that succeeds
\* replaces whatever undo was offered by the undo of the report just claimed,
\* with the window and the expiry timer measured from this claim; and an undo
\* write is only ever issued for the newest claimed report: never for a report
\* while a report reported after it is resolved.
C14_OnlyNewestUndoable ==
  [][\A R \in AllDocIds :
       /\ ClaimSucceededStep(R) =>
            /\ undoState' = <<[reportId |-> R, expiresAt |-> now + UNDO_WINDOW_MS,
                               isProcessing |-> FALSE]>>
            /\ undoTimerRef' = <<now + UNDO_WINDOW_MS>>
       /\ (\E held \in pendingUndos' \ pendingUndos : held.reportId = R) =>
            \A Q \in AllDocIds :
              (ReportedAfter(Q, R) /\ remote[Q].exists) => remote[Q].status # "resolved"
    ]_vars

\* C20: a claim set remotely is cleared only by the explicit undo inside its
\* window.  A report that is resolved and still exists after a step is still
\* resolved unless the step completes an undo write for it; and an undo write
\* is issued only for the report on the banner and no later than the expiry
\* of its window.  No tick, feed snapshot, position sample, save or removal
\* takes a report from resolved back to open.
C20_OnlyUndoUnclaims ==
  [][/\ \A R \in AllDocIds :
          (remote[R].exists /\ remote[R].status = "resolved"
             /\ remote'[R].exists /\ remote'[R].status # "resolved")
          => \E held \in pendingUndos \ pendingUndos' : held.reportId = R
     /\ \A held \in pendingUndos' \ pendingUndos :
          /\ undoState # <<>>
          /\ held.reportId = undoState[1].reportId
          /\ held.expiresAt = undoState[1].expiresAt
          /\ now <= held.expiresAt
    ]_vars

\* a report was claimed and its claim cleared again by an undo, while the
\* user's spot for it is gone from the store
C20_Witness ==
  \E R \in AllDocIds :
    /\ Reopened(R)
    /\ undoState = <<>>
    /\ \A i \in 1..Len(spots) : spots[i].firestoreId # R

\* C15: the coordinate firewall.  No record of the Store, of the persisted
\* Store or of the report lists handed to the merge layer has a latitude or
\* longitude out of range; a save with such coordinates adds no record.
C15_CoordinateFirewall ==
  /\ \A i \in 1..Len(spots) : safeCoord(spots[i].latitude, spots[i].longitude)
  /\ \A i \in 1..Len(storedSpots) :
       safeCoord(storedSpots[i].latitude, storedSpots[i].longitude)
  /\ \A r \in cloudReports \cup myReports : safeCoord(r.latitude, r.longitude)

\* the total duration the form holds, in seconds
FormTotalSeconds == form.hours * 3600 + form.minutes * 60 + form.seconds

\* C16: a save with a total duration of 0 is rejected: the user is told, and
\* the Store, the persisted Store, the remote store, the save in progress,
\* the last-reported pointer and the form are as before; and every record
\* stored or about to be stored has a duration of at least 1 second.
C16_ZeroDurationRejected ==
  [][/\ (SaveForm /\ FormTotalSeconds = 0) =>
          /\ AlertOf("Invalid Duration", NoId, 0) \in alerts'
          /\ spots' = spots /\ storedSpots' = storedSpots
          /\ creating' = creating /\ saveCount' = saveCount
          /\ remote' = remote
          /\ lastReported' = lastReported /\ storedLast' = storedLast
          /\ form' = form
     /\ \A i \in 1..Len(spots') : spots'[i].durationSeconds >= 1
     /\ \A i \in 1..Len(storedSpots') : storedSpots'[i].durationSeconds >= 1
     /\ creating' # <<>> => creating'[1].spot.durationSeconds >= 1
     /\ \A d \in AllDocIds : remote'[d].exists => remote'[d].durationSeconds >= 1
    ]_vars

\* a save with 0 seconds on the form was just refused, with a record in the
\* Store from an earlier save
C16_Witness ==
  /\ alerts = {AlertOf("Invalid Duration", NoId, 0)}
  /\ form.pendingCoord # <<>>
  /\ FormTotalSeconds = 0
  /\ spots # <<>>

\* the record is of a paid spot and carries no rate
PaidWithoutRate(type, rate) == type = "paid" /\ (rate = <<>> \/ rate = <<"">>)

\* C17: saving a paid spot without a rate is rejected at once: no record of a
\* paid spot without a rate is stored, is being saved or is created remotely.
C17_PaidNeedsRate ==
  /\ \A i \in 1..Len(spots) : ~PaidWithoutRate(spots[i].type, spots[i].rate)
  /\ creating # <<>> => ~PaidWithoutRate(creating[1].spot.type, creating[1].spot.rate)
  /\ \A d \in AllDocIds :
       remote[d].exists => ~PaidWithoutRate(remote[d].type, remote[d].rate)

\* C18: the optimistic local record: in every state after a save was accepted
\* and before its remote create has completed, the record is in the Store and
\* a marker is drawn for it.
C18_OptimisticRecord ==
  creating # <<>> =>
    /\ \E i \in 1..Len(spots) : spots[i].id = creating[1].spot.id
    /\ \E m \in Markers : ~m.isCloud /\ m.id = creating[1].spot.id

\* the save in progress ends in this step without its report having been
\* written: createParkingReport rejected
CreateFailedStep ==
  /\ creating # <<>>
  /\ ~creating[1].written
  /\ creating' = <<>>

\* C19: when the remote create fails, the new spot is appended to the Store as
\* a local-only record without a remote id, the failure is surfaced, the
\* last-reported pointer stays as it was and the create is not issued again:
\* the remote store is untouched and no save is in progress afterwards.  A
\* report comes to exist remotely only by the one write of the save in
\* progress.
C19_CreateFailureKeepsLocal ==
  [][/\ CreateFailedStep =>
          /\ Len(spots') = Len(spots) + 1
          /\ SubSeq(spots', 1, Len(spots)) = spots
          /\ spots'[Len(spots')].id = creating[1].spot.id
          /\ spots'[Len(spots')].firestoreId = NoId
          /\ AlertOf("Firestore save failed", creating[1].spot.id, 0) \in alerts'
          /\ lastReported' = lastReported /\ storedLast' = storedLast
          /\ remote' = remote
     /\ \A d \in AllDocIds :
          (~remote[d].exists /\ remote'[d].exists) =>
            /\ creating # <<>> /\ ~creating[1].written /\ creating[1].docId = d
            /\ creating' # <<>> /\ creating'[1].written
    ]_vars

\* a create has failed: its record is in the Store without a remote id, the
\* failure was just surfaced, and nothing was written remotely for it
C19_Witness ==
  /\ creating = <<>>
  /\ \E i \in 1..Len(spots) :
       /\ spots[i].firestoreId = NoId
       /\ AlertOf("Firestore save failed", spots[i].id, 0) \in alerts
       /\ ~remote[DocId(spots[i].id[2])].exists

\* C21: claiming is "set claim if not already claimed": a markReportTaken call
\* applied to a report that another claimant has already resolved leaves the
\* claimant and the claim time as they are, so that the final claim does not
\* depend on the order in which the claimants' calls are applied.
C21_ClaimIfNotClaimed ==
  [][(\E uid \in Claimants :
        /\ takenRace.doc.status = "resolved"
        /\ takenRace.doc.resolvedBy # uid
        /\ uid \in takenRace.inFlight /\ uid \notin takenRace'.inFlight)
       => takenRace'.doc = takenRace.doc]_vars

\* the identities under which the k-th saved spot is known: its local record
\* and its remote echo
IdsOfSpot(k) == {LocalId(k), DocId(k)}

\* the ticker fires in this step
TickStep == nextTickAt' = nextTickAt + TICK_MS /\ now' = now

\* the ids the "expiring soon" alerts of the most recent handler are about
ExpiringAlerted == {a.id : a \in {x \in alerts : x.title = "Parking Spot Expiring Soon"}}

\* C22: at most one "expiring soon" alert is raised for each of the user's
\* spots, whether it is known as a local record, as its remote echo or as
\* both: a handler raises at most one alert per spot, and none for a spot
\* that has been alerted before under either identity.
C22_OneExpiringAlertPerSpot ==
  [][\A k \in 1..MaxSaves : TickStep =>
       /\ Cardinality(IdsOfSpot(k) \cap ExpiringAlerted') <= 1
       /\ (IdsOfSpot(k) \cap alertedIds # {}) => IdsOfSpot(k) \cap ExpiringAlerted' = {}
    ]_vars

\* the "spots expired" notifications of the most recent handler
ExpiredNotified == {a \in alerts : a.title = "Parking Spots Expired"}

\* C23: a tick's sweep that removes at least one record raises exactly one
\* "spots expired" notification, carrying the number of records it removed;
\* a sweep that removes nothing raises none.
C23_OneAggregateNotification ==
  [][TickStep =>
       LET removed == Len(spots) - Len(spots')
       IN ExpiredNotified' = IF removed > 0
                               THEN {AlertOf("Parking Spots Expired", NoId, removed)}
                               ELSE {}
    ]_vars

\* a sweep has just removed two records and raised the one notification
C23_Witness ==
  /\ ExpiredNotified = {AlertOf("Parking Spots Expired", NoId, 2)}
  /\ spots = <<>>
  /\ saveCount = 2

\* C24: the sweep is idempotent: once a tick's sweep has run, a second sweep
\* with no time passing and no other event in between removes no record,
\* leaves the Store as it is and raises no notification.
C24_SweepIdempotent ==
  [][TickStep =>
       LET again == stillValid(spots', now')
       IN /\ again = spots'
          /\ ExpiredAlerts(Len(spots') - Len(again)) = {}
    ]_vars

\* a sweep has just removed one record and kept another
C24_Witness ==
  /\ ExpiredNotified = {AlertOf("Parking Spots Expired", NoId, 1)}
  /\ spots # <<>>

\* the order of the lifecycle: fresh, expiring, expired
StatusRank(status) ==
  IF status = "fresh" THEN 0 ELSE IF status = "expiring" THEN 1 ELSE 2

\* the status of the probe's record, evaluated k clock steps after the probe
ProbeStatusLater(k) ==
  MarkerStatus(probe.createdAt, probe.durationSeconds, probe.now + k * ClockStep,
               probe.isCloud, probe.status)

\* the clock steps over which a probe is followed: past the longest duration
LaterSteps == 0..(2 * MaxEvalDuration + 8)

\* C25: for a fixed createdAt and durationSeconds and no claim, the status is
\* monotonic in now: from one clock step to the next, at every later time,
\* it stays or moves on in the order fresh, expiring, expired.
C25_StatusMonotonic ==
  (probe.out # "none" /\ ~(probe.isCloud /\ probe.status = "resolved")) =>
    /\ ProbeStatusLater(0) = probe.out
    /\ \A k \in LaterSteps :
         StatusRank(ProbeStatusLater(k)) <= StatusRank(ProbeStatusLater(k + 1))

\* a 30-second report evaluated fresh at age 26 that is expiring a second
\* later and expired four seconds later
C25_Witness ==
  /\ probe.out = "fresh"
  /\ probe.isCloud /\ probe.status = "open"
  /\ probe.durationSeconds = 30
  /\ ProbeAge = 26
  /\ ProbeStatusLater(2) = "expiring"
  /\ ProbeStatusLater(8) = "expired"


\* the age, in thousandths of a second, between the record's creation time
\* and the probe's clock
ProbeElapsedMs == probe.now - getTimeInMillis(probe.createdAt, probe.now)

\* C26: the age of an evaluated record is now - createdAt floored to whole
\* seconds and is never negative: with createdAt later than now it is 0.
C26_AgeFlooredNeverNegative ==
  probe.out # "none" =>
    /\ ProbeElapsedMs >= 0 =>
         /\ getAgeInSeconds(probe.createdAt, probe.now) * 1000 <= ProbeElapsedMs
         /\ ProbeElapsedMs < (getAgeInSeconds(probe.createdAt, probe.now) + 1) * 1000
    /\ ProbeElapsedMs < 0 => getAgeInSeconds(probe.createdAt, probe.now) = 0
    /\ getAgeInSeconds(probe.createdAt, probe.now) >= 0



\* the visibleRegion updates logged so far
UpdatesLogged == {i \in DOMAIN regionLog : regionLog[i].ev = "update"}

\* C27: region changes are debounced: a burst of changes, each arriving
\* before the quiet period after the previous one has passed, produces
\* exactly one visibleRegion update, equal to the burst's last region and
\* made once the quiet period after it has passed, and one re-subscription.
C27_BurstDebounced ==
  /\ \A i \in UpdatesLogged :
       /\ i > 1
       /\ regionLog[i - 1].ev = "change"
       /\ regionLog[i].region = regionLog[i - 1].region
       /\ regionLog[i].at >= regionLog[i - 1].at + REGION_DEBOUNCE_MS
  /\ subscribeCalls = 1 + Cardinality(UpdatesLogged)
  /\ (mounted /\ regionLog # <<>> /\ regionLog[Len(regionLog)].ev = "change") =>
       now <= regionLog[Len(regionLog)].at + REGION_DEBOUNCE_MS
  /\ UpdatesLogged # {} =>
       visibleRegion = regionLog[CHOOSE i \in UpdatesLogged :
                                  \A j \in UpdatesLogged : j <= i].region

C27_Witness ==
  /\ Len(regionLog) = 4
  /\ regionLog[1].ev = "change" /\ regionLog[2].ev = "change"
  /\ regionLog[3].ev = "change" /\ regionLog[4].ev = "update"
  /\ regionLog[2].at < regionLog[1].at + REGION_DEBOUNCE_MS
  /\ regionLog[3].at < regionLog[2].at + REGION_DEBOUNCE_MS
  /\ regionLog[3].region # regionLog[2].region
  /\ visibleRegion = regionLog[3].region
  /\ subscribeCalls = 2



\* C28: at most one subscription of the report feed is active at every
\* moment: while the screen is mounted it is the one the latest
\* subscribeToParkingReports call created, every earlier one having been
\* unsubscribed, and none remains after the screen has unmounted.
C28_OneActiveSubscription ==
  /\ Cardinality(subscriptions) <= 1
  /\ mounted => \A l \in subscriptions : l.id = subscribeCalls
  /\ mounted => subscriptions # {}
  /\ ~mounted => subscriptions = {}

C28_Witness ==
  /\ ~mounted
  /\ subscribeCalls = 3
  /\ visibleRegion # InitialRegion
  /\ subscriptions = {}



\* a record of the storage as it was at the restart that has not expired by
\* now and that the load accepts
LiveAtRestart(s) ==
  /\ safeCoord(s.latitude, s.longitude)
  /\ getAgeInSeconds(s.createdAt, now) < DurationOr30(s.durationSeconds)

\* C29: once the start-up of a restarted process has completed, every
\* non-expired local spot that was persisted before the restart is in the
\* Store, and so is the last-reported pointer when one was persisted.
C29_SpotsSurviveRestart ==
  (startup.restarted /\ startup.phase = "done") =>
    /\ \A i \in DOMAIN startup.persisted :
         LiveAtRestart(startup.persisted[i]) =>
           \E j \in DOMAIN spots : spots[j].id = startup.persisted[i].id
    /\ startup.persistedLast # <<>> => lastReported # <<>>



\* the pin colours drawn for the report with remote id rid in this render
ColorsShownFor(rid) == {m.color : m \in {x \in Markers : x.rid = rid}}

\* the pin colours renderMarker gives a local record when its age is taken
\* from the createdAt of the feed's report r
ColorsByServerTime(spot, r) ==
  {m.color : m \in renderMarker([spot EXCEPT !.createdAt = r.createdAt], FALSE, now)}

\* C30: once a saved spot's report is in the feed, the spot's age and the
\* status of its pin are those computed from the report's server-assigned
\* createdAt, not from the timestamp taken locally at the save.
C30_ServerTimeSupersedes ==
  \A i \in DOMAIN spots : \A r \in cloudReports :
    (r.id = spots[i].firestoreId /\ r.status = "open") =>
      /\ getAgeInSeconds(spots[i].createdAt, now) = getAgeInSeconds(r.createdAt, now)
      /\ ColorsShownFor(r.id) = ColorsByServerTime(spots[i], r)



\* the long press at a place got no answer from the cache: the lookup is made
LookupMade(latitude, longitude) ==
  FreshEntries(overpassCacheRef, <<latitude, longitude>>, now) = {}

\* the long press of this step was refused
PressBlocked == AlertOf("Not on a road/parking area", NoId, 0) \in alerts'

\* C31: the road/parking check fails open: a long press whose lookup fails
\* opens the form on the pressed place; a long press is refused only on the
\* answer of a lookup that succeeded and found nothing, made now or held in
\* the cache, and only such a lookup is cached as a refusal.
C31_LookupFailsOpen ==
  [][\A latitude \in FormLats : \A fetched \in OsmOutcomes :
       HandleMapLongPress(latitude, SpotLon, fetched) =>
         LET made == LookupMade(latitude, SpotLon)
             coord == [latitude |-> latitude, longitude |-> SpotLon]
         IN /\ (made /\ fetched = "error") =>
                 /\ ~PressBlocked
                 /\ form'.pendingCoord = <<coord>>
            /\ PressBlocked =>
                 /\ form' = form
                 /\ \/ made /\ fetched = "false"
                    \/ ~made /\ \E e \in overpassCacheRef :
                                   e.key = <<latitude, SpotLon>> /\ ~e.ok
            /\ \A e \in overpassCacheRef' \ overpassCacheRef :
                 ~e.ok => made /\ fetched = "false"]_vars

C31_Witness ==
  /\ alerts = {AlertOf("Could not verify location", NoId, 0)}
  /\ form.pendingCoord = <<[latitude |-> SpotLat, longitude |-> SpotLon]>>
  /\ \E e \in overpassCacheRef :
       e.key = <<SpotLat, SpotLon>> /\ e.ok /\ e.t = now /\ now > Epoch + OVERPASS_CACHE_MS



\* C32: a claim call is issued for a report only on a dwell accumulated for
\* that report: the sample that issues it is not the first of its dwell, and
\* the dwell began no earlier than the report was created.
C32_DwellBelongsToReport ==
  [][\A d \in AllDocIds :
       claimCalls'[d] > claimCalls[d] =>
         /\ dwellStartRef # <<>>
         /\ dwellStartRef[1] >= getTimeInMillis(remote[d].createdAt, now)]_vars



\* C33: a position sample issues a claim call for a report only while the
\* spot saved with that report is in the Store: once the spot has been
\* removed or swept as expired, no later sample issues one.
C33_NoClaimAfterRemoval ==
  [][\A d \in AllDocIds :
       claimCalls'[d] > claimCalls[d] =>
         \E i \in DOMAIN spots : spots[i].firestoreId = d]_vars



\* C34: no undo opportunity outlives its window: whenever an undo state is
\* present, the expiry timer that clears it is pending, and its deadline is
\* the end of that undo state's window.
C34_UndoStateHasTimer ==
  undoState # <<>> =>
    /\ undoTimerRef # <<>>
    /\ undoTimerRef[1] = undoState[1].expiresAt



\* the runs of the position watch effect whose async function is still going
RunsInFlight == {r \in DOMAIN watchRuns : watchRuns[r].phase # "ended"}

\* C35: at most one position subscription is active at any time, and once
\* every run of the effect has finished, no subscription created by a
\* superseded or torn-down run is left.
C35_OnePositionSubscription ==
  /\ Cardinality(positionSubs) <= 1
  /\ RunsInFlight = {} =>
       \A sub \in positionSubs : sub = Len(watchRuns) /\ watchRuns[sub].mounted



\* C36: the list subscribeToParkingReportsInBounds emitted last holds only
\* open reports inside the bounding box that are in the latest snapshot of
\* their geohash range.
C36_EmitsLatestSnapshotOnly ==
  \A e \in emitted :
    /\ e.status = "open"
    /\ InsideBounds(e.latitude, e.longitude)
    /\ e.id \in lastSnap[RangeOf(e.latitude, e.longitude)]


============================================================================
